---- MODULE Spec2Model ----
(***************************************************************************)
(* A model of lfjson's storage engine on the 64-bit target (LFJ_64BIT):    *)
(* the slab PoolAllocator in its two schemes, the StringPool hash table    *)
(* over it, and the Document editor that grows containers through the      *)
(* object allocator and interns strings through the pool.                  *)
(*                                                                         *)
(* Pointers are modelled as pairs.  A compact PoolPtr is <<chunk, pos>>;   *)
(* a raw pointer of the object allocator is <<data, pos>> with data the    *)
(* address of the chunk (or of the fallback record) it points into.        *)
(* Asserts are compiled out (NDEBUG): an operation whose assert would      *)
(* fail behaves as the release build does.                                 *)
(***************************************************************************)
EXTENDS Integers, Sequences, FiniteSets, TLC

(***************************************************************************)
(* Program constants                                                       *)
(***************************************************************************)
LFJ_MAX_UINT16 == 65535
Alignment == 8
DeadCellSize == 4
SizeofChunk == 16
SizeofFallback == 16
SizeofJString == 16
SizeofPoolPtr == 4
SizeofCharPtr == 8
StartingBucketCount == 16
\* the ChunkSize template arguments the model instantiates
ChunkSize32 == 32
ChunkSize64 == 64

(***************************************************************************)
(* Bounds of the model                                                     *)
(***************************************************************************)
MaxFallbackCount == 3
MaxShrinkItemCount == 1
MaxAddr == 2
MaxLive == 5
\* elements an Array or Object is grown to, bools a BArray is grown to, the
\* length of the paths the editor is directed to, and the nesting followed
MaxSize == 2
MaxBSize == 2
MaxPath == 2
MaxDepth == 4
\* chunks of the shrink scenario
MaxChunks == 5
\* bytes the object allocator may count as dead
MaxTotalDead == 8
\* events a handler is fed, elements pushed to a container, containers open
MaxEvents == 6
MaxElements == 3
MaxNesting == 2
\* regions live at once and chunks held in the alternative scheme
MaxAltLive == 3
MaxAltChunks == 2

U16(x) == x % 65536

Max(a, b) == IF a >= b THEN a ELSE b

NullPtr == <<LFJ_MAX_UINT16, LFJ_MAX_UINT16>>
FallbackChunk == LFJ_MAX_UINT16 - 1

(***************************************************************************)
(* FNV-1a on 32 bits (LFJ_NO_XXHASH build).  A hash is the pair            *)
(* <<high 16 bits, low 16 bits>> so that no intermediate value leaves the  *)
(* range of the checker's integers.                                        *)
(***************************************************************************)
Bit(x, k) == (x \div (2 ^ k)) % 2

XorBit(a, b, k) == ((Bit(a, k) + Bit(b, k)) % 2) * (2 ^ k)

\* exclusive or of two bytes
Xor8(a, b) ==
  XorBit(a, b, 0) + XorBit(a, b, 1) + XorBit(a, b, 2) + XorBit(a, b, 3)
  + XorBit(a, b, 4) + XorBit(a, b, 5) + XorBit(a, b, 6) + XorBit(a, b, 7)

FnvStep(h, byte) ==
  LET lo0 == (h[2] - (h[2] % 256)) + Xor8(h[2] % 256, byte)
      hi0 == h[1]
      pl  == lo0 * 403
      lo1 == pl % 65536
      hi1 == (hi0 * 403 + lo0 * 256 + (pl \div 65536)) % 65536
  IN  <<hi1, lo1>>

RECURSIVE fnv1a_32_len(_, _)
fnv1a_32_len(str, n) ==
  IF n = 0 THEN <<33052, 40389>> ELSE FnvStep(fnv1a_32_len(str, n - 1), str[n])

fnv1a_32(str) == fnv1a_32_len(str, Len(str))

\* the byte strings handed to the pool
StrA == <<97>>
StrCapA == <<65>>
StrLong == <<97, 98, 99, 100, 101, 102, 103, 104, 105, 106, 107, 108,
             109, 110, 111, 112, 113, 114, 115, 116, 117, 118, 119, 119>>

\* "", "abcdefghijklmn" and "abcdefghijklmno"
StrEmpty == <<>>
Str14 == <<97, 98, 99, 100, 101, 102, 103, 104, 105, 106, 107, 108, 109, 110>>
Str15 == <<97, 98, 99, 100, 101, 102, 103, 104, 105, 106, 107, 108, 109, 110, 111>>

Strings == {StrA, StrCapA, StrLong}

\* the hash of each of them, computed once
HashOf ==
  (StrA :> fnv1a_32(StrA)) @@ (StrCapA :> fnv1a_32(StrCapA))
  @@ (StrLong :> fnv1a_32(StrLong)) @@ (Str14 :> fnv1a_32(Str14)) @@ (Str15 :> fnv1a_32(Str15))

computeHash(str) == HashOf[str]

fastMod(h, ceil) == (((h[1] % ceil) * (65536 % ceil)) + (h[2] % ceil)) % ceil

(***************************************************************************)
(* JString                                                                 *)
(***************************************************************************)
\* the sign of the first differing byte of two arrays of the same length
memcmp(a, b) ==
  LET diff == {i \in 1..Len(a) : a[i] # b[i]}
  IN  IF diff = {} THEN 0
      ELSE LET first == CHOOSE i \in diff : \A j \in diff : i <= j
           IN  IF a[first] < b[first] THEN -1 ELSE 1

\* a faulty compare: the bytes over the shorter length, the lengths ignored
comparePrefix(js, other) ==
  IF Len(js.str) <= Len(other)
  THEN memcmp(js.str, SubSeq(other, 1, Len(js.str)))
  ELSE memcmp(SubSeq(js.str, 1, Len(other)), other)

\* JString::compare: the object's bytes against (other, len)
compare(js, other) ==
  IF Len(js.str) < Len(other) THEN -1
  ELSE IF Len(js.str) > Len(other) THEN 1
  ELSE memcmp(js.str, other)

totalSize(own, len) ==
  SizeofJString + (IF (~own) \/ len < SizeofCharPtr THEN 0 ELSE len + 1 - SizeofCharPtr)

construct(str, own, key, next) == [str |-> str, own |-> own, key |-> key, next |-> next]

\* a faulty updateIsKey: the flag assigned instead of or-ed in
assignIsKey(js, key) == [js EXCEPT !.key = key]

updateIsKey(js, key) == [js EXCEPT !.key = js.key \/ key]

(***************************************************************************)
(* PoolAllocator: chunks, dead cells, fallbacks.                           *)
(* A chunk is [firstAvail, firstDead, totalDead, data, cells]; cells holds *)
(* the DeadCell headers {size, next} written into the chunk's bytes, keyed *)
(* by the offset they were written at.  An allocator is the record of the  *)
(* class members; mChunks has mChunksCapacity slots.  Every operation      *)
(* returns the new allocator, the pointer, and the change in the bytes     *)
(* held from the base allocator (used).                                    *)
(***************************************************************************)
Chunk(CS, ptr) ==
  [firstAvail |-> 0, firstDead |-> CS, totalDead |-> 0, data |-> ptr, cells |-> <<>>]

\* an unconstructed slot of the chunk vector
RawSlot == [firstAvail |-> 0, firstDead |-> 0, totalDead |-> 0, data |-> -1, cells |-> <<>>]

avail(CS, chunk) == U16(CS - chunk.firstAvail)

PoolAllocator ==
  [mLastChunk |-> 0, mTotalDead |-> 0, mChunksCount |-> 0, mChunksCapacity |-> 0,
   mChunks |-> <<>>, mFallbacks |-> <<>>, mFallbackCount |-> 0]

alignSize(size) ==
  LET floor == (size \div Alignment) * Alignment
  IN  IF size = floor THEN floor ELSE floor + Alignment

chunkable(CS, alignedSize) == alignedSize <= CS

\* bytes a dead cell header is read from; an offset no header was written at
\* holds whatever the previous owner left there
DeadCellAt(CS, chunk, pos) ==
  IF pos \in DOMAIN chunk.cells THEN chunk.cells[pos] ELSE [size |-> 0, next |-> CS]

\* a map restricted to the keys in S
RECURSIVE Restrict(_, _)
Restrict(cells, S) ==
  IF S = {} THEN <<>>
  ELSE LET k == CHOOSE x \in S : TRUE
       IN  (k :> cells[k]) @@ Restrict(cells, S \ {k})

DropCell(cells, pos) == Restrict(cells, (DOMAIN cells) \ {pos})

PutCell(cells, pos, cell) == (pos :> cell) @@ cells

NoMem == -1

RECURSIVE deadWalk(_, _, _, _, _, _, _)
deadWalk(CS, chunk, size, curDead, prevDead, smallestDead, smallestSize) ==
  IF curDead < CS
  THEN LET deadCell == DeadCellAt(CS, chunk, curDead)
           deadSize == deadCell.size
       IN  IF deadSize = size
           THEN \* exact size: unlink
                LET linked == IF prevDead >= CS
                              THEN [chunk EXCEPT !.firstDead = deadCell.next]
                              ELSE [chunk EXCEPT !.cells[prevDead].next = deadCell.next]
                IN  [mem |-> curDead,
                     chunk |-> [linked EXCEPT !.cells = DropCell(linked.cells, curDead),
                                              !.totalDead = U16(linked.totalDead - size)]]
           ELSE IF deadSize >= size * 2
           THEN \* large enough for 2: take the tail of the cell
                [mem |-> curDead + (deadSize - size),
                 chunk |-> [chunk EXCEPT !.cells[curDead].size = deadSize - size,
                                         !.totalDead = U16(chunk.totalDead - size)]]
           ELSE IF deadSize < smallestSize /\ deadSize > size
           THEN deadWalk(CS, chunk, size, deadCell.next, curDead, curDead, deadSize)
           ELSE deadWalk(CS, chunk, size, deadCell.next, curDead, smallestDead, smallestSize)
  ELSE IF smallestDead < CS
       THEN [mem |-> smallestDead + (smallestSize - size),
             chunk |-> [chunk EXCEPT !.cells[smallestDead].size = smallestSize - size,
                                     !.totalDead = U16(chunk.totalDead - size)]]
       ELSE [mem |-> NoMem, chunk |-> chunk]

\* an allocateFromDead that starts its walk at the second cell of the list
allocateFromSecond(CS, chunk, size) ==
  IF chunk.totalDead >= size /\ chunk.firstDead < CS
  THEN deadWalk(CS, chunk, size, DeadCellAt(CS, chunk, chunk.firstDead).next,
                chunk.firstDead, CS, CS)
  ELSE [mem |-> NoMem, chunk |-> chunk]

allocateFromDead(CS, chunk, size) ==
  IF chunk.totalDead >= size
  THEN deadWalk(CS, chunk, size, chunk.firstDead, CS, CS, CS)
  ELSE [mem |-> NoMem, chunk |-> chunk]

\* n copies of x (the memset of a fresh array)
Fill(n, x) == [i \in 1..n |-> x]

ChunkVectorGrow(cap) == (3 * cap + 1) \div 2

\* (uint32_t)(((int32_t)mLastChunk - 1) % mChunksCount): -1 converts to 2^32 - 1
PrevIdx(last, count) ==
  IF last > 0 THEN (last - 1) % count
  ELSE ((((65535 % count) * (65536 % count)) % count) + (65535 % count)) % count

NextIdx(last, count) == (last + 1) % count

Least(S) == CHOOSE i \in S : \A j \in S : i <= j

\* the chunk vector with room for one more chunk, and the base bytes it costs
GrowChunks(A) ==
  IF A.mChunksCount >= A.mChunksCapacity
  THEN LET newCapacity == ChunkVectorGrow(A.mChunksCapacity)
       IN  [A |-> [A EXCEPT !.mChunks = SubSeq(A.mChunks, 1, A.mChunksCount)
                                         \o Fill(newCapacity - A.mChunksCount, RawSlot),
                            !.mChunksCapacity = newCapacity],
            used |-> SizeofChunk * newCapacity - SizeofChunk * A.mChunksCapacity]
  ELSE [A |-> A, used |-> 0]

allocateAlt(CS, A0, size) ==
  LET alignedSize == alignSize(size)
      size16 == U16(alignedSize)
  IN
  IF chunkable(CS, alignedSize)
  THEN LET empty == A0.mChunksCapacity = 0
           A == IF empty
                THEN [A0 EXCEPT !.mChunks = <<Chunk(CS, 0)>>, !.mChunksCapacity = 1,
                                !.mChunksCount = 1, !.mLastChunk = 0]
                ELSE A0
           used0 == IF empty THEN SizeofChunk + CS ELSE 0
           last == A.mLastChunk
           lastChunk == A.mChunks[last + 1]
           lastDead == allocateFromDead(CS, lastChunk, size16)
           others == {i \in 0..(A.mChunksCount - 1) : i # last}
           othersAvail == {i \in others : avail(CS, A.mChunks[i + 1]) >= size16}
           othersDead == IF A.mTotalDead >= alignedSize
                         THEN {i \in others : allocateFromDead(CS, A.mChunks[i + 1], size16).mem # NoMem}
                         ELSE {}
       IN
       IF avail(CS, lastChunk) >= size16
       THEN [A |-> [A EXCEPT !.mChunks[last + 1].firstAvail = U16(lastChunk.firstAvail + size16)],
             ptr |-> <<last, lastChunk.firstAvail>>, used |-> used0]
       ELSE IF lastDead.mem # NoMem
       THEN [A |-> [A EXCEPT !.mChunks[last + 1] = lastDead.chunk,
                             !.mTotalDead = A.mTotalDead - size16],
             ptr |-> <<last, lastDead.mem>>, used |-> used0]
       ELSE IF othersAvail # {}
       THEN LET i == Least(othersAvail)
            IN  [A |-> [A EXCEPT !.mLastChunk = i,
                                 !.mChunks[i + 1].firstAvail = U16(A.mChunks[i + 1].firstAvail + size16)],
                 ptr |-> <<i, A.mChunks[i + 1].firstAvail>>, used |-> used0]
       ELSE IF othersDead # {}
       THEN LET i == Least(othersDead)
                dead == allocateFromDead(CS, A.mChunks[i + 1], size16)
            IN  [A |-> [A EXCEPT !.mChunks[i + 1] = dead.chunk,
                                 !.mTotalDead = A.mTotalDead - size16],
                 ptr |-> <<i, dead.mem>>, used |-> used0]
       ELSE LET grown == GrowChunks(A)
                G == grown.A
                n == G.mChunksCount
            IN  [A |-> [G EXCEPT !.mChunks[n + 1] = [Chunk(CS, n) EXCEPT !.firstAvail = size16],
                                 !.mLastChunk = n,
                                 !.mChunksCount = n + 1],
                 ptr |-> <<n, 0>>, used |-> used0 + grown.used + CS]
  ELSE [A |-> [A0 EXCEPT !.mFallbacks = <<[size |-> size]>> \o A0.mFallbacks,
                         !.mFallbackCount = A0.mFallbackCount + 1],
        ptr |-> <<FallbackChunk, U16(A0.mFallbackCount)>>,
        used |-> SizeofFallback - 1 + size]

\* a release that chains the dead cell without counting it
releaseUncounted(CS, chunk, pos, alignedSize) ==
  IF chunk.totalDead + alignedSize = chunk.firstAvail
  THEN [chunk EXCEPT !.firstAvail = 0, !.firstDead = CS, !.totalDead = 0, !.cells = <<>>]
  ELSE IF pos + alignedSize = chunk.firstAvail
  THEN [chunk EXCEPT !.firstAvail = pos]
  ELSE [chunk EXCEPT !.cells = PutCell(chunk.cells, pos,
                                       [size |-> U16(alignedSize), next |-> chunk.firstDead]),
                     !.firstDead = pos]

\* a release that resets the chunk only when the region also ends at firstAvail
releaseAdjoining(CS, chunk, pos, alignedSize) ==
  IF chunk.totalDead + alignedSize = chunk.firstAvail /\ pos + alignedSize = chunk.firstAvail
  THEN [chunk EXCEPT !.firstAvail = 0, !.firstDead = CS, !.totalDead = 0, !.cells = <<>>]
  ELSE IF pos + alignedSize = chunk.firstAvail
  THEN [chunk EXCEPT !.firstAvail = pos]
  ELSE [chunk EXCEPT !.cells = PutCell(chunk.cells, pos,
                                       [size |-> U16(alignedSize), next |-> chunk.firstDead]),
                     !.firstDead = pos,
                     !.totalDead = U16(chunk.totalDead + alignedSize)]

\* the state of a chunk after one of its regions is given back
releaseInChunk(CS, chunk, pos, alignedSize) ==
  IF chunk.totalDead + alignedSize = chunk.firstAvail
  THEN [chunk EXCEPT !.firstAvail = 0, !.firstDead = CS, !.totalDead = 0, !.cells = <<>>]
  ELSE IF pos + alignedSize = chunk.firstAvail
  THEN [chunk EXCEPT !.firstAvail = pos]
  ELSE [chunk EXCEPT !.cells = PutCell(chunk.cells, pos,
                                       [size |-> U16(alignedSize), next |-> chunk.firstDead]),
                     !.firstDead = pos,
                     !.totalDead = U16(chunk.totalDead + alignedSize)]

\* mLastChunk after chunk idx became empty
lastAfterEmpty(CS, A, idx) ==
  IF A.mLastChunk = idx /\ A.mChunksCount > 1
  THEN LET prevIdx == PrevIdx(A.mLastChunk, A.mChunksCount)
           nextIdx == NextIdx(A.mLastChunk, A.mChunksCount)
       IN  IF A.mChunks[prevIdx + 1].firstAvail < CS THEN prevIdx
           ELSE IF A.mChunks[nextIdx + 1].firstAvail < CS THEN nextIdx
           ELSE A.mLastChunk
  ELSE A.mLastChunk

\* a deallocateAlt that unlinks a fallback record instead of replacing it
deallocateAltUnlinked(CS, A, sp, size) ==
  IF sp[1] >= LFJ_MAX_UINT16
  THEN [A |-> A, used |-> 0, dead |-> FALSE]
  ELSE IF sp[1] < A.mChunksCount
  THEN LET alignedSize == alignSize(size)
           chunk == A.mChunks[sp[1] + 1]
           empty == chunk.totalDead + alignedSize = chunk.firstAvail
           tail == sp[2] + alignedSize = chunk.firstAvail
           A1 == [A EXCEPT !.mChunks[sp[1] + 1] = releaseInChunk(CS, chunk, sp[2], alignedSize),
                           !.mTotalDead = IF empty THEN A.mTotalDead - chunk.totalDead
                                          ELSE IF tail THEN A.mTotalDead
                                          ELSE A.mTotalDead + alignedSize]
       IN  [A |-> IF empty THEN [A1 EXCEPT !.mLastChunk = lastAfterEmpty(CS, A1, sp[1])] ELSE A1,
            used |-> 0,
            dead |-> ~empty /\ ~tail]
  ELSE LET pos == A.mFallbackCount - 1 - sp[2]
       IN  [A |-> [A EXCEPT !.mFallbacks = SubSeq(A.mFallbacks, 1, pos)
                                             \o SubSeq(A.mFallbacks, pos + 2, Len(A.mFallbacks))],
            used |-> 0 - (SizeofFallback - 1 + A.mFallbacks[pos + 1].size),
            dead |-> FALSE]

deallocateAlt(CS, A, sp, size) ==
  IF sp[1] >= LFJ_MAX_UINT16
  THEN [A |-> A, used |-> 0, dead |-> FALSE]
  ELSE IF sp[1] < A.mChunksCount
  THEN LET alignedSize == alignSize(size)
           chunk == A.mChunks[sp[1] + 1]
           empty == chunk.totalDead + alignedSize = chunk.firstAvail
           tail == sp[2] + alignedSize = chunk.firstAvail
           A1 == [A EXCEPT !.mChunks[sp[1] + 1] = releaseInChunk(CS, chunk, sp[2], alignedSize),
                           !.mTotalDead = IF empty THEN A.mTotalDead - chunk.totalDead
                                          ELSE IF tail THEN A.mTotalDead
                                          ELSE A.mTotalDead + alignedSize]
       IN  [A |-> IF empty THEN [A1 EXCEPT !.mLastChunk = lastAfterEmpty(CS, A1, sp[1])] ELSE A1,
            used |-> 0,
            dead |-> ~empty /\ ~tail]
  ELSE LET pos == A.mFallbackCount - 1 - sp[2]
       IN  [A |-> [A EXCEPT !.mFallbacks[pos + 1] = [size |-> 1]],
            used |-> SizeofFallback - (SizeofFallback - 1 + A.mFallbacks[pos + 1].size),
            dead |-> FALSE]

shrinkAlt(CS, A) ==
  IF \E i \in 1..A.mChunksCount : A.mChunks[i].firstAvail # 0
  THEN [A |-> A, used |-> 0]
  ELSE [A |-> [A EXCEPT !.mChunksCount = 0, !.mChunksCapacity = 0, !.mChunks = <<>>],
        used |-> 0 - (A.mChunksCount * CS + A.mChunksCapacity * SizeofChunk)]

(***************************************************************************)
(* Nominal scheme (the object allocator).  A raw pointer is <<data, pos>>: *)
(* data is the address the base allocator returned for the chunk (or for   *)
(* the fallback record) and pos the offset in it.  Blocks of the base      *)
(* allocator do not overlap, so ptr - mid is negative when ptr's block     *)
(* lies below mid and at least ChunkSize when it lies above.               *)
(***************************************************************************)
RECURSIVE findChunkIn(_, _, _, _)
findChunkIn(A, ptr, beginIdx, endIdx) ==
  IF beginIdx < endIdx
  THEN LET midIdx == (beginIdx + endIdx) \div 2
           mid == A.mChunks[midIdx + 1].data
       IN  IF ptr[1] < mid THEN findChunkIn(A, ptr, beginIdx, midIdx)
           ELSE IF ptr[1] > mid THEN findChunkIn(A, ptr, midIdx + 1, endIdx)
           ELSE [isChunk |-> TRUE, ptrIdx |-> midIdx]
  ELSE [isChunk |-> FALSE, ptrIdx |-> endIdx]

findChunk(A, ptr) == findChunkIn(A, ptr, 0, A.mChunksCount)

\* the chunk vector after the chunk constructed in slot mChunksCount is moved
\* to its place by address
sortNewChunk(A) ==
  LET n == A.mChunksCount
      successorIdx == findChunk(A, <<A.mChunks[n + 1].data, 0>>).ptrIdx
  IN  [mChunks |-> [i \in 1..Len(A.mChunks) |->
                      IF i <= successorIdx THEN A.mChunks[i]
                      ELSE IF i = successorIdx + 1 THEN A.mChunks[n + 1]
                      ELSE IF i <= n + 1 THEN A.mChunks[i - 1]
                      ELSE A.mChunks[i]],
       successorIdx |-> successorIdx]

\* the first chunk of an allocator that has none
firstChunk(CS, A0, data) ==
  IF A0.mChunksCapacity = 0
  THEN [A0 EXCEPT !.mChunks = <<Chunk(CS, data)>>, !.mChunksCapacity = 1,
                  !.mChunksCount = 1, !.mLastChunk = 0]
  ELSE A0

fromAvail(A, i, size16) ==
  [A |-> [A EXCEPT !.mLastChunk = i,
                   !.mChunks[i + 1].firstAvail = U16(A.mChunks[i + 1].firstAvail + size16)],
   ptr |-> <<A.mChunks[i + 1].data, A.mChunks[i + 1].firstAvail>>]

\* a freelist hit that makes the chunk the last-used one
fromDeadLast(A, i, size16, dead) ==
  [A |-> [A EXCEPT !.mLastChunk = i, !.mChunks[i + 1] = dead.chunk,
                   !.mTotalDead = A.mTotalDead - size16],
   ptr |-> <<A.mChunks[i + 1].data, dead.mem>>]

fromDead(A, i, size16, dead) ==
  [A |-> [A EXCEPT !.mChunks[i + 1] = dead.chunk, !.mTotalDead = A.mTotalDead - size16],
   ptr |-> <<A.mChunks[i + 1].data, dead.mem>>]

fromNewChunk(CS, G, size16, data) ==
  LET n == G.mChunksCount
      sorted == sortNewChunk([G EXCEPT !.mChunks[n + 1] = Chunk(CS, data)])
      idx == sorted.successorIdx
  IN  [A |-> [G EXCEPT !.mChunks = [sorted.mChunks EXCEPT ![idx + 1].firstAvail = size16],
                       !.mLastChunk = idx,
                       !.mChunksCount = n + 1],
       ptr |-> <<data, 0>>]

\* the chunks other than the last one that can serve size16 from their dead cells
othersDead(CS, A, size16) ==
  IF A.mTotalDead >= size16
  THEN {i \in 0..(A.mChunksCount - 1) :
          i # A.mLastChunk /\ allocateFromDead(CS, A.mChunks[i + 1], size16).mem # NoMem}
  ELSE {}

othersAvail(CS, A, size16) ==
  {i \in 0..(A.mChunksCount - 1) : i # A.mLastChunk /\ avail(CS, A.mChunks[i + 1]) >= size16}

\* allocateChunked with the dead cells of the last chunk searched before its tail
allocateDeadFirst(CS, A, size16, data) ==
  IF allocateFromDead(CS, A.mChunks[A.mLastChunk + 1], size16).mem # NoMem
  THEN fromDead(A, A.mLastChunk, size16,
                allocateFromDead(CS, A.mChunks[A.mLastChunk + 1], size16))
  ELSE IF avail(CS, A.mChunks[A.mLastChunk + 1]) >= size16
  THEN fromAvail(A, A.mLastChunk, size16)
  ELSE fromNewChunk(CS, GrowChunks(A).A, size16, data)

allocateChunked(CS, A, size16, data) ==
  IF avail(CS, A.mChunks[A.mLastChunk + 1]) >= size16
  THEN fromAvail(A, A.mLastChunk, size16)
  ELSE IF allocateFromDead(CS, A.mChunks[A.mLastChunk + 1], size16).mem # NoMem
  THEN fromDead(A, A.mLastChunk, size16,
                allocateFromDead(CS, A.mChunks[A.mLastChunk + 1], size16))
  ELSE IF othersAvail(CS, A, size16) # {}
  THEN fromAvail(A, Least(othersAvail(CS, A, size16)), size16)
  ELSE IF othersDead(CS, A, size16) # {}
  THEN fromDead(A, Least(othersDead(CS, A, size16)), size16,
                allocateFromDead(CS, A.mChunks[Least(othersDead(CS, A, size16)) + 1], size16))
  ELSE fromNewChunk(CS, GrowChunks(A).A, size16, data)

\* data is the address the base allocator hands out if the call asks it for a
\* chunk or a fallback record
allocate(CS, A0, size, data) ==
  IF chunkable(CS, alignSize(size))
  THEN allocateChunked(CS, firstChunk(CS, A0, data), U16(alignSize(size)), data)
  ELSE [A |-> [A0 EXCEPT !.mFallbacks = <<[size |-> size, data |-> data]>> \o A0.mFallbacks],
        ptr |-> <<data, 0>>]

deallocateChunked(CS, A, idx, pos, alignedSize) ==
  LET chunk == A.mChunks[idx + 1]
      empty == chunk.totalDead + alignedSize = chunk.firstAvail
      tail == pos + alignedSize = chunk.firstAvail
      A1 == [A EXCEPT !.mChunks[idx + 1] = releaseInChunk(CS, chunk, pos, alignedSize),
                      !.mTotalDead = IF empty THEN A.mTotalDead - chunk.totalDead
                                     ELSE IF tail THEN A.mTotalDead
                                     ELSE A.mTotalDead + alignedSize]
  IN  IF empty THEN [A1 EXCEPT !.mLastChunk = lastAfterEmpty(CS, A1, idx)] ELSE A1

\* the fallback list without the record whose data is ptr
unlinkFallback(fallbacks, ptr) ==
  LET at == {i \in 1..Len(fallbacks) : fallbacks[i].data = ptr[1]}
  IN  IF at = {} THEN fallbacks
      ELSE SubSeq(fallbacks, 1, Least(at) - 1) \o SubSeq(fallbacks, Least(at) + 1, Len(fallbacks))

\* wild: the pointer is in no chunk, the chunk slot then read is not a chunk
deallocate(CS, A, ptr, size) ==
  IF chunkable(CS, alignSize(size))
  THEN IF findChunk(A, ptr).isChunk
       THEN [A |-> deallocateChunked(CS, A, findChunk(A, ptr).ptrIdx, ptr[2], alignSize(size)),
             wild |-> FALSE]
       ELSE [A |-> A, wild |-> TRUE]
  ELSE [A |-> [A EXCEPT !.mFallbacks = unlinkFallback(A.mFallbacks, ptr)], wild |-> FALSE]

\* reallocChunked without the test that the growth stays in the chunk
reallocUnfitted(CS, A, idx, pos, alignedCapacity, alignedNewCapacity) ==
  IF pos + alignedCapacity = A.mChunks[idx + 1].firstAvail
  THEN [A |-> [A EXCEPT !.mChunks[idx + 1].firstAvail = U16(pos + alignedNewCapacity)],
        ok |-> TRUE, wild |-> FALSE]
  ELSE [A |-> A, ok |-> FALSE, wild |-> FALSE]

reallocChunked(CS, A, idx, pos, alignedCapacity, alignedNewCapacity) ==
  IF /\ pos + alignedCapacity = A.mChunks[idx + 1].firstAvail
     /\ pos + alignedNewCapacity <= CS
  THEN [A |-> [A EXCEPT !.mChunks[idx + 1].firstAvail = U16(pos + alignedNewCapacity)],
        ok |-> TRUE, wild |-> FALSE]
  ELSE [A |-> A, ok |-> FALSE, wild |-> FALSE]

realloc(CS, A, ptr, capacity, newCapacity) ==
  IF capacity = 0 THEN [A |-> A, ok |-> FALSE, wild |-> FALSE]
  ELSE IF ~chunkable(CS, alignSize(capacity)) THEN [A |-> A, ok |-> FALSE, wild |-> FALSE]
  ELSE IF findChunk(A, ptr).isChunk
  THEN reallocChunked(CS, A, findChunk(A, ptr).ptrIdx, ptr[2],
                      alignSize(capacity), alignSize(newCapacity))
  ELSE [A |-> A, ok |-> FALSE, wild |-> TRUE]

(***************************************************************************)
(* StringPool.  The pool is the record of the class members plus strs,     *)
(* the JString objects living in the allocator's memory, keyed by their    *)
(* compact pointer (a pointer and the address it resolves to are in        *)
(* bijection while the object lives).  mBuckets is the bucket array that   *)
(* mBucketsPtr resolves to.                                                *)
(***************************************************************************)
IsNull(ptr) == ptr[1] = LFJ_MAX_UINT16

\* what a linked pointer that resolves to no string object is read as
Wild == [str |-> <<>>, own |-> FALSE, key |-> TRUE, next |-> NullPtr]

Deref(strs, ptr) == IF ptr \in DOMAIN strs THEN strs[ptr] ELSE Wild

setNext(strs, ptr, next) ==
  IF ptr \in DOMAIN strs THEN [strs EXCEPT ![ptr].next = next] ELSE strs

\* the members once the bucket array al was allocated
poolWithBuckets(CS, initBucketCount, al) ==
  [ChunkSize |-> CS, mAllocator |-> al.A, mItemCount |-> 0,
   mBucketCount |-> initBucketCount,
   mBuckets |-> Fill(initBucketCount, NullPtr),
   mBucketsPtr |-> al.ptr, strs |-> <<>>, used |-> al.used]

StringPool(CS, initBucketCount) ==
  poolWithBuckets(CS, initBucketCount,
                  IF initBucketCount > 0
                  THEN allocateAlt(CS, PoolAllocator, SizeofPoolPtr * initBucketCount)
                  ELSE [A |-> PoolAllocator, ptr |-> NullPtr, used |-> 0])

RECURSIVE getFrom(_, _, _)
getFrom(strs, ptr, str) ==
  IF IsNull(ptr) THEN NullPtr
  ELSE IF compare(Deref(strs, ptr), str) = 0 THEN ptr
  ELSE getFrom(strs, Deref(strs, ptr).next, str)

get_(P, str) ==
  IF P.mItemCount = 0 THEN NullPtr
  ELSE getFrom(P.strs, P.mBuckets[fastMod(computeHash(str), P.mBucketCount) + 1], str)

\* the do-while of pushNewString; it is the node whose successor is examined
RECURSIVE pushAfter(_, _, _)
pushAfter(strs, it, sptr) ==
  LET ptrNext == Deref(strs, it).next
  IN  IF IsNull(ptrNext)
      THEN setNext(setNext(strs, sptr, NullPtr), it, sptr)
      ELSE IF compare(Deref(strs, ptrNext), Deref(strs, sptr).str) > 0
      THEN setNext(setNext(strs, sptr, ptrNext), it, sptr)
      ELSE pushAfter(strs, ptrNext, sptr)

\* T is the table being filled: [mBuckets, strs]
pushNewString(T, index, sptr) ==
  LET ptr == T.mBuckets[index + 1]
  IN  IF IsNull(ptr)
      THEN [mBuckets |-> [T.mBuckets EXCEPT ![index + 1] = sptr],
            strs |-> setNext(T.strs, sptr, NullPtr)]
      ELSE IF compare(Deref(T.strs, ptr), Deref(T.strs, sptr).str) > 0
      THEN [mBuckets |-> [T.mBuckets EXCEPT ![index + 1] = sptr],
            strs |-> setNext(T.strs, sptr, ptr)]
      ELSE [T EXCEPT !.strs = pushAfter(T.strs, ptr, sptr)]

RECURSIVE rehashChain(_, _, _, _)
rehashChain(T, ptr, newBucketCount, count) ==
  IF IsNull(ptr) THEN [T |-> T, count |-> count]
  ELSE LET it == Deref(T.strs, ptr)
           newIndex == fastMod(computeHash(it.str), newBucketCount)
       IN  rehashChain(pushNewString(T, newIndex, ptr), it.next, newBucketCount, count + 1)

\* the buckets at or after index i that hold a chain; the loops over the
\* bucket array do nothing on the others
Occupied(P, i) == {j \in i..(P.mBucketCount - 1) : ~IsNull(P.mBuckets[j + 1])}

\* the walk over the bucket array, r the outcome of the chain just re-homed
RECURSIVE rehashFrom(_, _, _, _, _)
rehashNext(P, r, index, newBucketCount) == rehashFrom(P, r.T, index, newBucketCount, r.count)

rehashFrom(P, T, index, newBucketCount, count) ==
  IF count < P.mItemCount /\ Occupied(P, index) # {}
  THEN rehashNext(P, rehashChain(T, P.mBuckets[Least(Occupied(P, index)) + 1],
                                 newBucketCount, count),
                  Least(Occupied(P, index)) + 1, newBucketCount)
  ELSE T

\* the new bucket array after the old one is given back: a dead cell header
\* written inside it is read back as the bucket entry at that offset
afterDeadCell(A, buckets, bucketsPtr, sp) ==
  LET off == sp[2] - bucketsPtr[2]
  IN  IF sp[1] = bucketsPtr[1] /\ off >= 0 /\ off < SizeofPoolPtr * Len(buckets)
      THEN LET cell == A.mChunks[sp[1] + 1].cells[sp[2]]
           IN  [buckets EXCEPT ![(off \div SizeofPoolPtr) + 1] = <<cell.size, cell.next>>]
      ELSE buckets

\* the end of rehash: the old bucket array was given back (de), the new one
\* (al, filled as T) takes its place
rehashSwap(P, newBucketCount, al, T, de) ==
  [P EXCEPT !.mAllocator = de.A,
            !.mBuckets = IF de.dead
                         THEN afterDeadCell(de.A, T.mBuckets, al.ptr, P.mBucketsPtr)
                         ELSE T.mBuckets,
            !.strs = T.strs,
            !.mBucketsPtr = al.ptr,
            !.mBucketCount = newBucketCount,
            !.used = P.used + al.used + de.used]

\* the body of rehash once the new bucket array al was allocated
rehashInto(P, newBucketCount, al) ==
  rehashSwap(P, newBucketCount, al,
             rehashFrom(P, [mBuckets |-> Fill(newBucketCount, NullPtr), strs |-> P.strs],
                        0, newBucketCount, 0),
             deallocateAlt(P.ChunkSize, al.A, P.mBucketsPtr, SizeofPoolPtr * P.mBucketCount))

rehash(P, newBucketCount) ==
  rehashInto(P, newBucketCount,
             allocateAlt(P.ChunkSize, P.mAllocator, SizeofPoolPtr * newBucketCount))

\* the JString constructed in the memory al
constructAt(P, al, str, own, key, next) ==
  [P |-> [P EXCEPT !.mAllocator = al.A,
                   !.strs = PutCell(P.strs, al.ptr, construct(str, own, key, next)),
                   !.used = P.used + al.used],
   ptr |-> al.ptr]

\* createString: the pool with the new object, and its pointer
createString(P, str, own, key, next) ==
  constructAt(P, allocateAlt(P.ChunkSize, P.mAllocator, totalSize(own, Len(str))),
              str, own, key, next)

\* the new string c linked after the node it
linkAfter(c, it, itemCount) ==
  [P |-> [c.P EXCEPT !.strs = setNext(c.P.strs, it, c.ptr),
                     !.mItemCount = itemCount + 1],
   ref |-> c.ptr, found |-> FALSE]

\* the new string c linked as the head of bucket index
linkHead(c, index, itemCount) ==
  [P |-> [c.P EXCEPT !.mBuckets[index + 1] = c.ptr,
                     !.mItemCount = itemCount + 1],
   ref |-> c.ptr, found |-> FALSE]

\* an equal string was found at ptr
foundAt(P, ptr, key) ==
  [P |-> [P EXCEPT !.strs[ptr] = updateIsKey(P.strs[ptr], key)],
   ref |-> ptr, found |-> TRUE]

\* the chain walk of provide; it is the node whose successor is examined
RECURSIVE provideAfter(_, _, _, _, _)
provideAfter(P, it, str, own, key) ==
  LET ptrNext == Deref(P.strs, it).next
      res == compare(Deref(P.strs, ptrNext), str)
  IN  IF IsNull(ptrNext) \/ res > 0
      THEN linkAfter(createString(P, str, own, key, ptrNext), it, P.mItemCount)
      ELSE IF res = 0
      THEN foundAt(P, ptrNext, key)
      ELSE provideAfter(P, ptrNext, str, own, key)

\* a load check against a maximum load of 1
growBucketsAtOne(P) ==
  IF P.mItemCount + 1 > P.mBucketCount
  THEN rehash(P, IF P.mBucketCount > 0 THEN P.mBucketCount * 2 ELSE StartingBucketCount)
  ELSE P

growBuckets(P) ==
  IF P.mItemCount + 1 > (P.mBucketCount * 3) \div 2
  THEN rehash(P, IF P.mBucketCount > 0 THEN P.mBucketCount * 2 ELSE StartingBucketCount)
  ELSE P

\* provide after the load check: P has room for one more string
provideIn(P, str, own, key) ==
  LET index == fastMod(computeHash(str), P.mBucketCount)
      head == P.mBuckets[index + 1]
      res == compare(Deref(P.strs, head), str)
  IN  IF IsNull(head) \/ res > 0
      THEN linkHead(createString(P, str, own, key, head), index, P.mItemCount)
      ELSE IF res = 0
      THEN foundAt(P, head, key)
      ELSE provideAfter(P, head, str, own, key)

provide(P0, str, own, key) == provideIn(growBuckets(P0), str, own, key)

\* give a string object back to the allocator
freed(P, ptr, de) ==
  [P EXCEPT !.mAllocator = de.A,
            !.strs = DropCell(P.strs, ptr),
            !.used = P.used + de.used]

freeString(P, ptr) ==
  freed(P, ptr,
        deallocateAlt(P.ChunkSize, P.mAllocator, ptr,
                      totalSize(Deref(P.strs, ptr).own, Len(Deref(P.strs, ptr).str))))

RECURSIVE releaseHead(_, _)
releaseHead(P, i) ==
  LET itPtr == P.mBuckets[i + 1]
      it == Deref(P.strs, itPtr)
  IN  IF ~IsNull(itPtr) /\ ~it.key
      THEN releaseHead(freeString([P EXCEPT !.mBuckets[i + 1] = it.next,
                                            !.mItemCount = P.mItemCount - 1], itPtr), i)
      ELSE P

RECURSIVE releaseRemaining(_, _)
releaseRemaining(P, it) ==
  LET nextPtr == Deref(P.strs, it).next
      itNext == Deref(P.strs, nextPtr)
  IN  IF IsNull(nextPtr) THEN P
      ELSE IF ~itNext.key
      THEN releaseRemaining(freeString([P EXCEPT !.strs = setNext(P.strs, it, itNext.next),
                                                 !.mItemCount = P.mItemCount - 1], nextPtr), it)
      ELSE releaseRemaining(P, nextPtr)

\* a faulty releaseTail: only the heads of the chains are examined
keepTail(H, j) == H

\* the rest of bucket j's chain, after its head H was settled
releaseTail(H, j) ==
  IF IsNull(H.mBuckets[j + 1]) THEN H ELSE releaseRemaining(H, H.mBuckets[j + 1])

RECURSIVE releaseFrom(_, _)
releaseFrom(P, i) ==
  IF Occupied(P, i) = {} THEN P
  ELSE releaseFrom(releaseTail(releaseHead(P, Least(Occupied(P, i))), Least(Occupied(P, i))),
                   Least(Occupied(P, i)) + 1)

releaseValues(P) == releaseFrom(P, 0)

RECURSIVE clearChain(_, _)
clearChain(P, itPtr) ==
  IF IsNull(itPtr) THEN P
  ELSE clearChain(freeString(P, itPtr), Deref(P.strs, itPtr).next)

RECURSIVE clearFrom(_, _)
clearFrom(P, i) ==
  IF Occupied(P, i) = {} THEN P
  ELSE LET j == Least(Occupied(P, i))
       IN  clearFrom(clearChain(P, P.mBuckets[j + 1]), j + 1)

\* the members reset after the bucket array was given back
cleared(P, de) ==
  [P EXCEPT !.mAllocator = de.A, !.mItemCount = 0, !.mBucketCount = 0,
            !.mBuckets = <<>>, !.mBucketsPtr = NullPtr, !.used = P.used + de.used]

\* the bucket array of P given back
clearBuckets(P) ==
  cleared(P, deallocateAlt(P.ChunkSize, P.mAllocator, P.mBucketsPtr,
                           SizeofPoolPtr * P.mBucketCount))

clear(P0) == clearBuckets(clearFrom(P0, 0))

\* ceil(mItemCount / mMaxLoadFactor) with the default factor 1.5
shrunkBucketCount(itemCount) == (2 * itemCount + 2) \div 3

shrunk(P, sh) == [P EXCEPT !.mAllocator = sh.A, !.used = P.used + sh.used]

shrinkAllocator(P) == shrunk(P, shrinkAlt(P.ChunkSize, P.mAllocator))

shrink(P0, rehashStringPool) ==
  shrinkAllocator(IF rehashStringPool
                     /\ ~chunkable(P0.ChunkSize, alignSize(SizeofPoolPtr * P0.mBucketCount))
                  THEN rehash(P0, shrunkBucketCount(P0.mItemCount))
                  ELSE P0)

(***************************************************************************)
(* The string pool as a state machine                                      *)
(***************************************************************************)
VARIABLES
  pool,      \* the StringPool
  last,      \* the last call on the pool: its arguments, what it returned, and
             \* size() before it
  firstRef,  \* per byte string, the reference returned when it was created
  ub,        \* an operation has read through a pointer to no live object
  opa,       \* a PoolAllocator used in the nominal scheme
  chunkSize, \* its ChunkSize
  live,      \* the regions it returned that were not given back: [ptr, size]
  call,      \* the last call on it
  mem,       \* the memory of a document's value cells
  dlast,     \* the last call on the document's editor
  hdl        \* a Handler of the document and what its client knows

poolVars == <<pool, last, firstRef, ub>>

allocVars == <<opa, chunkSize, live, call>>

docVars == <<mem, dlast, hdl>>

vars == <<poolVars, allocVars, docVars>>

\* <<bytes, own>>: extern strings through provide(const char*), copied ones
\* through provide(char*) or provideInterned
ProvideInputs == {<<StrA, FALSE>>, <<StrCapA, TRUE>>, <<StrLong, TRUE>>}

\* <<ChunkSize, initBucketCount>> of the pools the model constructs
PoolConfigs == {<<ChunkSize32, 0>>, <<ChunkSize32, 1>>, <<ChunkSize64, 32>>}

RECURSIVE chainPtrs(_, _)
chainPtrs(strs, ptr) ==
  IF IsNull(ptr) THEN <<>>
  ELSE <<ptr>> \o (IF ptr \in DOMAIN strs THEN chainPtrs(strs, strs[ptr].next) ELSE <<>>)

Chain(P, i) == chainPtrs(P.strs, P.mBuckets[i + 1])

WildChain(P, i) == \E k \in DOMAIN Chain(P, i) : Chain(P, i)[k] \notin DOMAIN P.strs

AnyWild(P) == \E i \in 0..(P.mBucketCount - 1) : WildChain(P, i)

NoCall == [op |-> "none", str |-> <<>>, key |-> FALSE, ref |-> NullPtr, found |-> FALSE,
           size |-> 0]

NoAllocCall == [op |-> "none", ptr |-> <<0, 0>>, size |-> 0, ok |-> FALSE]

NoDocCall == [op |-> "none", path |-> <<>>, str |-> <<>>]

\* no document, no handler
IdleDoc == mem = <<>> /\ dlast = NoDocCall /\ hdl = <<>>

\* no allocator of its own besides the pool's
IdleAlloc ==
  /\ opa = PoolAllocator
  /\ chunkSize = ChunkSize32
  /\ live = {}
  /\ call = NoAllocCall

InitPool ==
  /\ \E c \in PoolConfigs : pool = StringPool(c[1], c[2])
  /\ last = NoCall
  /\ firstRef = [s \in Strings |-> NullPtr]
  /\ ub = FALSE
  /\ IdleAlloc
  /\ IdleDoc

\* the outcome of a provide call: G is the pool after the load check, r
\* what provide returns
Provided(str, key, G, r) ==
  IF (G # pool /\ AnyWild(pool))
     \/ WildChain(G, fastMod(computeHash(str), G.mBucketCount))
  THEN ub' = TRUE /\ UNCHANGED <<pool, last, firstRef>>
  ELSE /\ pool' = r.P
       /\ last' = [op |-> "provide", str |-> str, key |-> key, ref |-> r.ref,
                   found |-> r.found, size |-> pool.mItemCount]
       /\ firstRef' = IF r.found THEN firstRef ELSE [firstRef EXCEPT ![str] = r.ref]
       /\ UNCHANGED ub

Provide(str, own, key) ==
  /\ ~ub
  /\ UNCHANGED <<allocVars, docVars>>
  /\ pool.mAllocator.mFallbackCount + 2 <= MaxFallbackCount
  /\ Provided(str, key, growBuckets(pool), provide(pool, str, own, key))

ReleaseValues ==
  /\ ~ub
  /\ UNCHANGED <<allocVars, docVars>>
  /\ IF AnyWild(pool)
     THEN ub' = TRUE /\ UNCHANGED <<pool, last, firstRef>>
     ELSE /\ pool' = releaseValues(pool)
          /\ last' = [NoCall EXCEPT !.op = "releaseValues", !.size = pool.mItemCount]
          /\ firstRef' = [s \in Strings |->
                            IF firstRef[s] \in DOMAIN pool'.strs THEN firstRef[s] ELSE NullPtr]
          /\ UNCHANGED ub

Clear ==
  /\ ~ub
  /\ UNCHANGED <<allocVars, docVars>>
  /\ IF AnyWild(pool)
     THEN ub' = TRUE /\ UNCHANGED <<pool, last, firstRef>>
     ELSE /\ pool' = clear(pool)
          /\ last' = [NoCall EXCEPT !.op = "clear", !.size = pool.mItemCount]
          /\ firstRef' = [s \in Strings |-> NullPtr]
          /\ UNCHANGED ub

Shrink(rehashStringPool) ==
  /\ ~ub
  /\ UNCHANGED <<allocVars, docVars>>
  /\ pool.mAllocator.mFallbackCount + 1 <= MaxFallbackCount
  /\ pool.mItemCount <= MaxShrinkItemCount
  /\ IF AnyWild(pool)
     THEN ub' = TRUE /\ UNCHANGED <<pool, last, firstRef>>
     ELSE /\ pool' = shrink(pool, rehashStringPool)
          /\ last' = [NoCall EXCEPT !.op = "shrink", !.size = pool.mItemCount]
          /\ UNCHANGED <<firstRef, ub>>

(***************************************************************************)
(* Properties of the string pool                                           *)
(***************************************************************************)
\* the pointers linked in the chains of P
Linked(P) ==
  UNION {{Chain(P, i)[k] : k \in DOMAIN Chain(P, i)} : i \in 0..(P.mBucketCount - 1)}

\* the number of nodes on the chains of P, as sanityCheck counts them
RECURSIVE LinkedFrom(_, _)
LinkedFrom(P, i) ==
  IF Occupied(P, i) = {} THEN 0
  ELSE Len(Chain(P, Least(Occupied(P, i)))) + LinkedFrom(P, Least(Occupied(P, i)) + 1)

LinkedCount(P) == LinkedFrom(P, 0)

\* the linked string objects of P that hold the bytes str
Entries(P, str) == {p \in Linked(P) : p \in DOMAIN P.strs /\ P.strs[p].str = str}

\* the linked string objects of P whose key flag is set
KeyFlagged(P) == {p \in Linked(P) : p \in DOMAIN P.strs /\ P.strs[p].key}

\* chain i of P holds string objects only, each smaller than its successor
\* under compare
Increasing(P, i) ==
  /\ ~WildChain(P, i)
  /\ \A k \in 1..(Len(Chain(P, i)) - 1) :
       compare(P.strs[Chain(P, i)[k]], P.strs[Chain(P, i)[k + 1]].str) < 0

\* C1: a provide call leaves every byte string with at most one entry; when
\* the bytes were already in the pool it reports found, returns the reference
\* the first provide of those bytes returned and leaves size() unchanged, and
\* otherwise it adds one entry; get of the bytes then returns the reference.
C1_ProvideInterns ==
  [][(last'.op = "provide" /\ ~ub') =>
       /\ \A s \in Strings : Cardinality(Entries(pool', s)) <= 1
       /\ get_(pool', last'.str) = last'.ref
       /\ last'.ref \in Entries(pool', last'.str)
       /\ IF Entries(pool, last'.str) # {}
          THEN /\ last'.found
               /\ last'.ref = firstRef[last'.str]
               /\ pool'.mItemCount = pool.mItemCount
          ELSE /\ ~last'.found
               /\ pool'.mItemCount = pool.mItemCount + 1]_poolVars

\* a provide of bytes present in a full pool found them at the reference of
\* their first provide
C1_Witness ==
  /\ last.op = "provide" /\ last.found
  /\ last.ref = firstRef[last.str] /\ get_(pool, last.str) = last.ref
  /\ last.size = 3 /\ pool.mItemCount = 3

\* C7: releaseValues removes exactly the strings whose key flag is false:
\* afterwards get of a string returns the reference it returned before when
\* the string was key-flagged and null otherwise, the strings left are the
\* key-flagged ones, and size() is their number.
C7_ReleaseValues ==
  [][(last'.op = "releaseValues" /\ ~ub') =>
       /\ \A s \in Strings :
            get_(pool', s) = IF get_(pool, s) \in KeyFlagged(pool)
                             THEN get_(pool, s) ELSE NullPtr
       /\ Linked(pool') = KeyFlagged(pool)
       /\ DOMAIN pool'.strs = KeyFlagged(pool)
       /\ pool'.mItemCount = Cardinality(KeyFlagged(pool))]_poolVars

\* releaseValues took a pool of three strings down to its one key string
C7_Witness ==
  /\ last.op = "releaseValues" /\ last.size = 3
  /\ pool.mItemCount = 1 /\ Cardinality(KeyFlagged(pool)) = 1

\* C8: the key flag is sticky: a provide call leaves every key-flagged string
\* linked and key-flagged, whatever key it is given, and a provide with
\* key=true leaves the string it returns key-flagged.
C8_KeySticky ==
  [][(last'.op = "provide" /\ ~ub') =>
       /\ \A p \in KeyFlagged(pool) : p \in KeyFlagged(pool')
       /\ last'.key => last'.ref \in KeyFlagged(pool')]_poolVars

\* a string that is key-flagged was found by a provide with key=false and
\* is still key-flagged
C8_Witness ==
  /\ last.op = "provide" /\ last.found /\ ~last.key
  /\ last.ref \in KeyFlagged(pool)

\* C9: every bucket chain is strictly increasing under the order of compare
\* (length first, then the bytes).
C9_ChainsIncreasing ==
  \A i \in 0..(pool.mBucketCount - 1) : Increasing(pool, i)

\* C10: size() is the number of string objects linked in the bucket chains.
C10_SizeIsLinked == pool.mItemCount = LinkedCount(pool)

(***************************************************************************)
(* A client of a PoolAllocator in the nominal scheme: it gives back or     *)
(* resizes only regions it holds, with the size it asked for.              *)
(***************************************************************************)
\* the addresses the base allocator hands out
Addrs == 1..MaxAddr

\* the address of a block past the ones the model has room for: a call that
\* would take it is not followed
NoAddr == MaxAddr + 1

AllocChunkSizes == {ChunkSize32}

\* request sizes: unaligned, aligned, and beyond either ChunkSize
AllocSizes == {5, 16, 24, 40}

\* the addresses of the base allocator's blocks the allocator holds
InUse(A) ==
  {A.mChunks[i].data : i \in 1..A.mChunksCount} \cup
  {A.mFallbacks[i].data : i \in 1..Len(A.mFallbacks)}

InitAlloc ==
  /\ opa = PoolAllocator
  /\ chunkSize \in AllocChunkSizes
  /\ live = {}
  /\ call = NoAllocCall
  /\ pool = StringPool(ChunkSize32, 0)
  /\ last = NoCall
  /\ firstRef = [s \in Strings |-> NullPtr]
  /\ ub = FALSE
  /\ IdleDoc

Allocated(size, r) ==
  /\ NoAddr \notin InUse(r.A)
  /\ opa' = r.A
  /\ live' = live \cup {[ptr |-> r.ptr, size |-> size]}
  /\ call' = [op |-> "allocate", ptr |-> r.ptr, size |-> size, ok |-> TRUE]

Allocate(size, data) ==
  /\ Cardinality(live) < MaxLive
  /\ data \notin InUse(opa)
  /\ Allocated(size, allocate(chunkSize, opa, size, data))
  /\ UNCHANGED <<chunkSize, poolVars, docVars>>

Deallocate(b) ==
  /\ opa' = deallocate(chunkSize, opa, b.ptr, b.size).A
  /\ live' = live \ {b}
  /\ call' = [op |-> "deallocate", ptr |-> b.ptr, size |-> b.size, ok |-> TRUE]
  /\ UNCHANGED <<chunkSize, poolVars, docVars>>

Reallocated(b, newCapacity, r) ==
  /\ opa' = r.A
  /\ live' = IF r.ok THEN (live \ {b}) \cup {[ptr |-> b.ptr, size |-> newCapacity]} ELSE live
  /\ call' = [op |-> "realloc", ptr |-> b.ptr, size |-> newCapacity, ok |-> r.ok]

Realloc(b, newCapacity) ==
  /\ newCapacity > b.size
  /\ Reallocated(b, newCapacity, realloc(chunkSize, opa, b.ptr, b.size, newCapacity))
  /\ UNCHANGED <<chunkSize, poolVars, docVars>>


(***************************************************************************)
(* Properties of the allocator                                             *)
(***************************************************************************)
NoSum == LFJ_MAX_UINT16 + 1

\* the sizes of the dead cells met walking the chain from next, summed as
\* sanityCheck sums them; NoSum or more if the walk leaves the cells written
RECURSIVE chunkDead(_, _, _, _)
chunkDead(CS, chunk, next, fuel) ==
  IF next = CS THEN 0
  ELSE IF fuel = 0 \/ next \notin DOMAIN chunk.cells THEN NoSum
  ELSE chunk.cells[next].size + chunkDead(CS, chunk, chunk.cells[next].next, fuel - 1)

\* C3: after any sequence of allocate, deallocate and realloc calls, in every
\* chunk the sizes of the dead cells chained from firstDead sum to the chunk's
\* totalDead, and firstAvail is at most ChunkSize.
C3_DeadCellsSum ==
  \A i \in 1..opa.mChunksCount :
    /\ chunkDead(chunkSize, opa.mChunks[i], opa.mChunks[i].firstDead, chunkSize)
         = opa.mChunks[i].totalDead
    /\ opa.mChunks[i].firstAvail <= chunkSize

\* an allocate served from a dead cell of a chunk that still chains two cells
C3_Witness ==
  /\ call.op = "allocate"
  /\ \E i \in 1..opa.mChunksCount :
       /\ call.ptr[1] = opa.mChunks[i].data
       /\ call.ptr[2] + alignSize(call.size) < opa.mChunks[i].firstAvail
       /\ Cardinality(DOMAIN opa.mChunks[i].cells) >= 2
       /\ opa.mChunks[i].totalDead > 0

(***************************************************************************)
(* The memory the document's value cells live in.  An address is           *)
(* <<data, pos>>: data names the block (a chunk or a fallback record of    *)
(* the object allocator, or the Document object for mRoot) and pos the     *)
(* byte offset in it.  A byte holds <<"byte", value, 0, 0>>, or the k-th   *)
(* byte of a stored pointer, <<kind, a, b, k>>; a byte nothing was written *)
(* to is absent.  Pointer kinds: "opa", the address <<a, b>> of the object *)
(* allocator; "spa", the JString at PoolPtr <<a, b>>; "str", the           *)
(* characters mStr of that JString; "ext", the caller's buffer of an       *)
(* extern string, named by its first byte and length.  What a read yields  *)
(* when the bytes are not of the kind the reader takes them for depends on *)
(* the addresses of the run: such a read sets ub and the run is followed   *)
(* no further.                                                             *)
(***************************************************************************)
\* JType
OBJECT == 0
ARRAY == 1
BARRAY == 2
IARRAY == 3
DARRAY == 4
SSTRING == 5
LSTRING == 6
INT64 == 7
UINT64 == 8
DOUBLE == 9
JTRUE == 10
JFALSE == 11
NUL == 12

SizeofJValue == 16
SizeofJMember == 24
SizeofBool == 1
SizeofInt64 == 8
SizeofDouble == 8
SizeofJBigArray == 24
SizeofJBigBArray == 8
SizeofJBigIArray == 16
SizeofJBigDArray == 16
SizeofJBigObject == 32
\* offsets of capa, size and the pointer union in Array and Object
CapaOffset == 2
SizeOffset == 4
PtrOffset == 8
ShortString_MaxSize == 15
ShortString_MaxLen == 14
\* offset of mValue in JMember
ValueOffset == 8

\* the Document object, holding mRoot
RootData == NoAddr + 1

\* the block of a Handler's LFStack, and its initial capacity
StackData == NoAddr + 2
StackCapacity == 1024
\* the 16 bits of LFJ_MAX_INT64 from 2^48 on; the 48 below are all set, so
\* that u64 <= LFJ_MAX_INT64 is a test on these
LFJ_MAX_INT64_hi == 32767

Root == <<RootData, 0>>

NoValue == <<NoAddr, 0>>

Unread == 0 - 1

BadPtr == <<"none", 0, 0>>

at(a, off) == <<a[1], a[2] + off>>

raw(p) == <<p[2], p[3]>>

opaPtr(a) == <<"opa", a[1], a[2]>>

shift(p, off) == <<p[1], p[2], p[3] + off>>

Byte(v) == <<"byte", v, 0, 0>>

cellAt(m, a) == IF a \in DOMAIN m THEN m[a] ELSE <<"none", 0, 0, 0>>

rd8(m, a) == IF cellAt(m, a)[1] = "byte" THEN cellAt(m, a)[2] ELSE Unread

rd16(m, a) ==
  IF rd8(m, a) = Unread \/ rd8(m, at(a, 1)) = Unread THEN Unread
  ELSE rd8(m, a) + 256 * rd8(m, at(a, 1))

rd32(m, a) ==
  IF rd16(m, a) = Unread \/ rd16(m, at(a, 2)) = Unread THEN Unread
  ELSE rd16(m, a) + 65536 * rd16(m, at(a, 2))

rdPtr(m, a) ==
  IF /\ cellAt(m, a)[1] \notin {"byte", "none"}
     /\ \A k \in 0..7 :
          cellAt(m, at(a, k)) = <<cellAt(m, a)[1], cellAt(m, a)[2], cellAt(m, a)[3], k>>
  THEN <<cellAt(m, a)[1], cellAt(m, a)[2], cellAt(m, a)[3]>>
  ELSE BadPtr

bytes16(v) == <<Byte(v % 256), Byte(v \div 256)>>

bytes32(v) == bytes16(v % 65536) \o bytes16(v \div 65536)

ptrCells(p) == [k \in 1..8 |-> <<p[1], p[2], p[3], k - 1>>]

\* m with the cells cs written from address a on
Put(m, a, cs) ==
  [x \in (DOMAIN m) \cup {at(a, i - 1) : i \in 1..Len(cs)} |->
     IF x[1] = a[1] /\ x[2] >= a[2] /\ x[2] < a[2] + Len(cs)
     THEN cs[x[2] - a[2] + 1] ELSE m[x]]

\* memcpy and memmove of n bytes: bytes never written stay so in the copy
Copy(m, dst, src, n) ==
  LET range == {at(dst, i) : i \in 0..(n - 1)}
      kept == {x \in range : at(src, x[2] - dst[2]) \in DOMAIN m}
  IN  [x \in ((DOMAIN m) \ range) \cup kept |->
         IF x \in kept THEN m[at(src, x[2] - dst[2])] ELSE m[x]]

\* m without the bytes of the block at data, given back to the base allocator
Unmap(m, data) == [x \in {y \in DOMAIN m : y[1] # data} |-> m[x]]

\* the size of the block at data, 0 if the allocator holds none there
BlockSize(CS, A, data) ==
  IF data = RootData THEN SizeofJValue
  ELSE IF data = StackData THEN StackCapacity
  ELSE IF \E i \in 1..A.mChunksCount : A.mChunks[i].data = data THEN CS
  ELSE IF \E i \in 1..Len(A.mFallbacks) : A.mFallbacks[i].data = data
  THEN A.mFallbacks[CHOOSE i \in 1..Len(A.mFallbacks) : A.mFallbacks[i].data = data].size
  ELSE 0

Mapped(CS, A, a, n) == a[2] >= 0 /\ a[2] + n <= BlockSize(CS, A, a[1])

(***************************************************************************)
(* A step of an editor operation maps a record D to the next one:          *)
(* [CS, A, m, P, ub, ok, ptr, ref], the object allocator A with its        *)
(* ChunkSize CS, the memory m, the string pool P, and what the last        *)
(* realloc (ok), allocate (ptr) and provide (ref) returned.                *)
(***************************************************************************)
Fault(D) == [D EXCEPT !.ub = TRUE]

store(D, a, cs) ==
  IF D.ub THEN D
  ELSE IF ~Mapped(D.CS, D.A, a, Len(cs)) THEN Fault(D)
  ELSE [D EXCEPT !.m = Put(D.m, a, cs)]

\* the DeadCell header as the bytes of the chunk hold it
deadHeader(dc) == bytes16(dc.size) \o bytes16(dc.next)

\* every dead cell header of A is in m as it was written
HeadersIntact(CS, A, m) ==
  \A i \in 1..A.mChunksCount : \A pos \in DOMAIN A.mChunks[i].cells :
    /\ rd16(m, <<A.mChunks[i].data, pos>>) = A.mChunks[i].cells[pos].size
    /\ rd16(m, <<A.mChunks[i].data, pos + 2>>) = A.mChunks[i].cells[pos].next

\* the chunk of A whose memory is at data
chunkAtData(A, data) ==
  IF \E i \in 1..A.mChunksCount : A.mChunks[i].data = data
  THEN A.mChunks[CHOOSE i \in 1..A.mChunksCount : A.mChunks[i].data = data]
  ELSE RawSlot

\* the headers an allocator call wrote in a chunk
changedCells(old, new) ==
  {pos \in DOMAIN new.cells : pos \notin DOMAIN old.cells \/ old.cells[pos] # new.cells[pos]}

RECURSIVE putHeaders(_, _, _)
putHeaders(m, chunk, S) ==
  IF S = {} THEN m
  ELSE putHeaders(Put(m, <<chunk.data, Least(S)>>, deadHeader(chunk.cells[Least(S)])),
                  chunk, S \ {Least(S)})

RECURSIVE syncFrom(_, _, _, _)
syncFrom(m, A0, A, i) ==
  IF i > A.mChunksCount THEN m
  ELSE syncFrom(putHeaders(m, A.mChunks[i],
                           changedCells(chunkAtData(A0, A.mChunks[i].data), A.mChunks[i])),
                A0, A, i + 1)

\* D after an allocator call that left the allocator as A
synced(D, A) == [D EXCEPT !.A = A, !.m = syncFrom(D.m, D.A, A, 1)]

allocatedAt(D, r) == [synced(D, r.A) EXCEPT !.ptr = opaPtr(r.ptr)]

\* every chain of dead cells ends, within the cells that were written
DeadChainsEnd(CS, A) ==
  \A i \in 1..A.mChunksCount :
    chunkDead(CS, A.mChunks[i], A.mChunks[i].firstDead, CS) < NoSum

\* allocate walks the chains of dead cells and reads their headers
docAllocate(D, size, data) ==
  IF D.ub THEN D
  ELSE IF size < 0 \/ ~HeadersIntact(D.CS, D.A, D.m) \/ ~DeadChainsEnd(D.CS, D.A) THEN Fault(D)
  ELSE allocatedAt(D, allocate(D.CS, D.A, size, data))

deallocatedAt(D, r) == IF r.wild THEN Fault(D) ELSE synced(D, r.A)

docDeallocate(D, p, size) ==
  IF D.ub THEN D
  ELSE IF p[1] # "opa" \/ size < 0 THEN Fault(D)
  ELSE IF chunkable(D.CS, alignSize(size))
  THEN IF p[3] >= D.CS THEN Fault(D)
       ELSE deallocatedAt(D, deallocate(D.CS, D.A, raw(p), size))
  ELSE IF p[3] = 0 /\ \E i \in 1..Len(D.A.mFallbacks) : D.A.mFallbacks[i].data = p[2]
  THEN [D EXCEPT !.A = deallocate(D.CS, D.A, raw(p), size).A, !.m = Unmap(D.m, p[2])]
  ELSE Fault(D)

reallocatedAt(D, r) == IF r.wild THEN Fault(D) ELSE [D EXCEPT !.A = r.A, !.ok = r.ok]

docRealloc(D, p, capacity, newCapacity) ==
  IF D.ub THEN D
  ELSE IF capacity = 0 THEN [D EXCEPT !.ok = FALSE]
  ELSE IF p[1] # "opa" \/ p[3] >= D.CS THEN Fault(D)
  ELSE reallocatedAt(D, realloc(D.CS, D.A, raw(p), capacity, newCapacity))

docMemcpy(D, dst, src, n) ==
  IF D.ub \/ n = 0 THEN D
  ELSE IF \/ dst[1] # "opa" \/ src[1] # "opa"
          \/ ~Mapped(D.CS, D.A, raw(dst), n) \/ ~Mapped(D.CS, D.A, raw(src), n)
  THEN Fault(D)
  ELSE [D EXCEPT !.m = Copy(D.m, raw(dst), raw(src), n)]

(***************************************************************************)
(* JValue: the fields of a value cell at address v                         *)
(***************************************************************************)
jtype(m, v) == rd8(m, v)

jcapa(m, v) == rd16(m, at(v, CapaOffset))

jsize(m, v) == rd32(m, at(v, SizeOffset))

jptr(m, v) == rdPtr(m, at(v, PtrOffset))

\* the capa field of the JBig descriptor the cell points to
bigCapacity(m, v) == IF jptr(m, v)[1] = "opa" THEN rd32(m, raw(jptr(m, v))) ELSE Unread

capacityOf(m, v) ==
  IF jcapa(m, v) = Unread THEN Unread
  ELSE IF jcapa(m, v) < LFJ_MAX_UINT16 THEN jcapa(m, v)
  ELSE bigCapacity(m, v)

\* per container type: the tag, sizeof the element, sizeof the JBig
\* descriptor, the offset of data in it, and whether reserve's Big branch
\* tests capacity > 0 before it gives the old buffer back
ArrayK ==
  [type |-> ARRAY, elem |-> SizeofJValue, big |-> SizeofJBigArray, data |-> 8,
   guarded |-> TRUE]

BArrayK ==
  [type |-> BARRAY, elem |-> SizeofBool, big |-> SizeofJBigBArray, data |-> 4,
   guarded |-> TRUE]

IArrayK ==
  [type |-> IARRAY, elem |-> SizeofInt64, big |-> SizeofJBigIArray, data |-> 8,
   guarded |-> TRUE]

DArrayK ==
  [type |-> DARRAY, elem |-> SizeofDouble, big |-> SizeofJBigDArray, data |-> 8,
   guarded |-> TRUE]

ObjectK ==
  [type |-> OBJECT, elem |-> SizeofJMember, big |-> SizeofJBigObject, data |-> 8,
   guarded |-> FALSE]

\* Array::values() and its siblings
values(K, m, v) ==
  IF jcapa(m, v) < LFJ_MAX_UINT16 THEN jptr(m, v) ELSE shift(jptr(m, v), K.data)

setType(D, v, t) == store(D, v, <<Byte(t)>>)

setCapa(D, v, c) == store(D, at(v, CapaOffset), bytes16(c))

setSize(D, v, s) == store(D, at(v, SizeOffset), bytes32(s))

setPtr(D, v, p) == store(D, at(v, PtrOffset), ptrCells(p))

\* JValue::set(JType): the pointer keeps what it held
setContainer(D, v, t) == setCapa(setSize(setType(D, v, t), v, 0), v, 0)

(***************************************************************************)
(* DataHelper: reserve, grow and shrink.  The five container types share   *)
(* the text of each helper up to the element type, K.                      *)
(***************************************************************************)
\* the small branch once realloc refused and the new buffer al.ptr was allocated
reserveMoved(K, al, v, oldValues, size, capacity, newCapacity) ==
  setCapa(setPtr(IF capacity > 0
                 THEN docDeallocate(docMemcpy(al, al.ptr, oldValues, size * K.elem),
                                    oldValues, capacity * K.elem)
                 ELSE al,
                 v, al.ptr),
          v, newCapacity)

\* re is the outcome of the realloc in place
reserveSmall(K, re, v, oldValues, size, capacity, newCapacity, data) ==
  IF re.ub THEN re
  ELSE IF re.ok THEN setCapa(re, v, newCapacity)
  ELSE reserveMoved(K, docAllocate(re, newCapacity * K.elem, data),
                    v, oldValues, size, capacity, newCapacity)

\* the Big branch once the descriptor al.ptr was allocated; oldBig is what the
\* cell pointed to
reserveBig(K, al, v, oldValues, oldBig, size, capacity, newCapacity) ==
  setCapa(setPtr(IF capacity > 0 \/ ~K.guarded
                 THEN docDeallocate(docMemcpy(store(al, raw(al.ptr), bytes32(newCapacity)),
                                              shift(al.ptr, K.data), oldValues, size * K.elem),
                                    IF capacity < LFJ_MAX_UINT16 THEN oldValues ELSE oldBig,
                                    IF capacity < LFJ_MAX_UINT16 THEN capacity * K.elem
                                    ELSE K.big + (capacity - 1) * K.elem)
                 ELSE store(al, raw(al.ptr), bytes32(newCapacity)),
                 v, al.ptr),
          v, LFJ_MAX_UINT16)

containerReserve(K, D, v, newCapacity, data) ==
  IF D.ub THEN D
  ELSE IF capacityOf(D.m, v) = Unread THEN Fault(D)
  ELSE IF newCapacity <= capacityOf(D.m, v) THEN D
  ELSE IF jsize(D.m, v) = Unread THEN Fault(D)
  ELSE IF newCapacity < LFJ_MAX_UINT16
  THEN reserveSmall(K, docRealloc(D, values(K, D.m, v), capacityOf(D.m, v) * K.elem,
                                  newCapacity * K.elem),
                    v, values(K, D.m, v), jsize(D.m, v), capacityOf(D.m, v), newCapacity, data)
  ELSE reserveBig(K, docAllocate(D, K.big + (newCapacity - 1) * K.elem, data),
                  v, values(K, D.m, v), jptr(D.m, v), jsize(D.m, v), capacityOf(D.m, v),
                  newCapacity)

arrayReserve(D, v, newCapacity, data) == containerReserve(ArrayK, D, v, newCapacity, data)

barrayReserve(D, v, newCapacity, data) == containerReserve(BArrayK, D, v, newCapacity, data)

objectReserve(D, v, newCapacity, data) == containerReserve(ObjectK, D, v, newCapacity, data)

\* ceil(capacity * 1.5), or 1
grownCapacity(capacity) == IF capacity > 0 THEN (3 * capacity + 1) \div 2 ELSE 1

containerGrow(K, D, v, data) ==
  IF D.ub THEN D
  ELSE IF capacityOf(D.m, v) = Unread THEN Fault(D)
  ELSE containerReserve(K, D, v, grownCapacity(capacityOf(D.m, v)), data)

arrayGrow(D, v, data) == containerGrow(ArrayK, D, v, data)

barrayGrow(D, v, data) == containerGrow(BArrayK, D, v, data)

objectGrow(D, v, data) == containerGrow(ObjectK, D, v, data)

\* the cell pointed at the new buffer al.ptr, nothing copied to it
shrinkUnmoved(K, al, v, oldValues, size) == setPtr(al, v, al.ptr)

\* the kept elements copied to the new buffer al.ptr, the cell pointed at it
shrinkMoved(K, al, v, oldValues, size) ==
  setPtr(docMemcpy(al, al.ptr, oldValues, size * K.elem), v, al.ptr)

\* capacity < LFJ_MAX_UINT16
shrinkSmall(K, D, v, oldValues, size, capacity, data) ==
  setCapa(IF chunkable(D.CS, alignSize(capacity * K.elem))
          THEN docDeallocate(D, shift(oldValues, size * K.elem), (capacity - size) * K.elem)
          ELSE docDeallocate(IF size > 0
                             THEN shrinkMoved(K, docAllocate(D, size * K.elem, data),
                                              v, oldValues, size)
                             ELSE D,
                             oldValues, capacity * K.elem),
          v, size % 65536)

\* a shrink out of a Big descriptor that leaves the capacity field alone
shrinkFromBigSentinel(K, D, v, oldBig, size, capacity, data) ==
  docDeallocate(IF size > 0
                THEN shrinkMoved(K, docAllocate(D, size * K.elem, data),
                                 v, shift(oldBig, K.data), size)
                ELSE D,
                oldBig, K.big + (capacity - 1) * K.elem)

\* Big container to container: size < LFJ_MAX_UINT16 <= capacity
shrinkFromBig(K, D, v, oldBig, size, capacity, data) ==
  setCapa(docDeallocate(IF size > 0
                        THEN shrinkMoved(K, docAllocate(D, size * K.elem, data),
                                         v, shift(oldBig, K.data), size)
                        ELSE D,
                        oldBig, K.big + (capacity - 1) * K.elem),
          v, size)

\* the descriptor al.ptr takes the place of oldBig
shrinkBigInto(K, al, v, oldBig, size, capacity) ==
  setPtr(docDeallocate(docMemcpy(store(al, raw(al.ptr), bytes32(size)),
                                 shift(al.ptr, K.data), shift(oldBig, K.data), size * K.elem),
                       oldBig, K.big + (capacity - 1) * K.elem),
         v, al.ptr)

containerShrink(K, D, v, data) ==
  IF D.ub THEN D
  ELSE IF jsize(D.m, v) = Unread \/ capacityOf(D.m, v) = Unread THEN Fault(D)
  ELSE IF jsize(D.m, v) = capacityOf(D.m, v) THEN D
  ELSE IF capacityOf(D.m, v) < LFJ_MAX_UINT16
  THEN shrinkSmall(K, D, v, jptr(D.m, v), jsize(D.m, v), capacityOf(D.m, v), data)
  ELSE IF jsize(D.m, v) < LFJ_MAX_UINT16
  THEN shrinkFromBig(K, D, v, jptr(D.m, v), jsize(D.m, v), capacityOf(D.m, v), data)
  ELSE shrinkBigInto(K, docAllocate(D, K.big + (jsize(D.m, v) - 1) * K.elem, data),
                     v, jptr(D.m, v), jsize(D.m, v), capacityOf(D.m, v))

arrayShrink(D, v, data) == containerShrink(ArrayK, D, v, data)

barrayShrink(D, v, data) == containerShrink(BArrayK, D, v, data)

objectShrink(D, v, data) == containerShrink(ObjectK, D, v, data)

(***************************************************************************)
(* RefValue: the editor operations, on the cell at address v               *)
(***************************************************************************)
\* the element i of an array, or the value of member i of an object
elementPtr(K, m, v, i) ==
  shift(values(K, m, v), i * K.elem + (IF K.type = OBJECT THEN ValueOffset ELSE 0))

storeAt(D, p, cs) ==
  IF D.ub THEN D
  ELSE IF p[1] # "opa" THEN Fault(D)
  ELSE store(D, raw(p), cs)

setElement(K, D, v, i, cs) ==
  IF D.ub THEN D ELSE storeAt(D, elementPtr(K, D.m, v, i), cs)

RECURSIVE deallocateValue(_, _, _)
RECURSIVE deallocateChildren(_, _, _, _, _, _)
\* the loop of deallocateArrayChildren and deallocateObjectChildren from i on
deallocateChildren(K, D, v, i, size, fuel) ==
  IF D.ub \/ i >= size THEN D
  ELSE IF elementPtr(K, D.m, v, i)[1] # "opa" THEN Fault(D)
  ELSE deallocateChildren(K, deallocateValue(D, raw(elementPtr(K, D.m, v, i)), fuel),
                          v, i + 1, size, fuel)

\* deallocateArray, deallocateBArray and deallocateObject after the children
deallocateBuffer(K, D, v) ==
  IF D.ub THEN D
  ELSE IF capacityOf(D.m, v) = Unread THEN Fault(D)
  ELSE IF capacityOf(D.m, v) < LFJ_MAX_UINT16
  THEN IF capacityOf(D.m, v) > 0
       THEN docDeallocate(D, jptr(D.m, v), capacityOf(D.m, v) * K.elem)
       ELSE D
  ELSE docDeallocate(D, jptr(D.m, v), K.big + (capacityOf(D.m, v) - 1) * K.elem)

deallocateValue(D, v, fuel) ==
  IF D.ub THEN D
  ELSE IF jtype(D.m, v) = Unread \/ fuel = 0 THEN Fault(D)
  ELSE IF jtype(D.m, v) = BARRAY THEN deallocateBuffer(BArrayK, D, v)
  ELSE IF jtype(D.m, v) = IARRAY THEN deallocateBuffer(IArrayK, D, v)
  ELSE IF jtype(D.m, v) = DARRAY THEN deallocateBuffer(DArrayK, D, v)
  ELSE IF jtype(D.m, v) \notin {ARRAY, OBJECT} THEN D
  ELSE IF jsize(D.m, v) = Unread THEN Fault(D)
  ELSE IF jtype(D.m, v) = ARRAY
  THEN deallocateBuffer(ArrayK, deallocateChildren(ArrayK, D, v, 0, jsize(D.m, v), fuel - 1), v)
  ELSE deallocateBuffer(ObjectK, deallocateChildren(ObjectK, D, v, 0, jsize(D.m, v), fuel - 1), v)

\* RefValue::deallocate
refDeallocate(D, v) == deallocateValue(D, v, MaxDepth)

toNull(D, v) == setType(refDeallocate(D, v), v, NUL)

toArray(D, v) == setContainer(refDeallocate(D, v), v, ARRAY)

toBArray(D, v) == setContainer(refDeallocate(D, v), v, BARRAY)

toObject(D, v) == setContainer(refDeallocate(D, v), v, OBJECT)

\* ++size and --size
sizeStep(D, v, d) == IF D.ub THEN D ELSE setSize(D, v, jsize(D.m, v) + d)

grownIfFull(K, D, v, data) ==
  IF D.ub THEN D
  ELSE IF jsize(D.m, v) = Unread \/ capacityOf(D.m, v) = Unread THEN Fault(D)
  ELSE IF jsize(D.m, v) = capacityOf(D.m, v) THEN containerGrow(K, D, v, data)
  ELSE D

\* the new element keeps what the buffer held
arrayIncSize(D, v, data) == sizeStep(grownIfFull(ArrayK, D, v, data), v, 1)

barrayIncSize(D, v, data) == sizeStep(grownIfFull(BArrayK, D, v, data), v, 1)

\* JValue::set(bool)
boolType(b) == IF b THEN JTRUE ELSE JFALSE

\* JValue::arrayBool(i) = b
boolByte(b) == IF b THEN 1 ELSE 0

arrayPushBack(D, v, b, data) ==
  setElement(ArrayK, arrayIncSize(D, v, data), v, jsize(D.m, v), <<Byte(boolType(b))>>)

barrayPushBack(D, v, b, data) ==
  setElement(BArrayK, barrayIncSize(D, v, data), v, jsize(D.m, v), <<Byte(boolByte(b))>>)

\* operator[](int) with index = arraySize(): incASize nulls the new element
subscriptNew(D, v, data) ==
  sizeStep(setElement(ArrayK, grownIfFull(ArrayK, D, v, data), v, jsize(D.m, v), <<Byte(NUL)>>),
           v, 1)

subscriptIndex(D, v, data) ==
  IF jtype(D.m, v) = NUL
  THEN subscriptNew(setContainer(D, v, ARRAY), v, data)
  ELSE subscriptNew(D, v, data)

arrayPopBack(D, v) ==
  IF elementPtr(ArrayK, D.m, v, jsize(D.m, v) - 1)[1] # "opa" THEN Fault(D)
  ELSE sizeStep(deallocateValue(D, raw(elementPtr(ArrayK, D.m, v, jsize(D.m, v) - 1)), MaxDepth),
                v, -1)

barrayPopBack(D, v) == sizeStep(D, v, -1)

arrayClear(D, v) ==
  setSize(deallocateChildren(ArrayK, D, v, 0, jsize(D.m, v), MaxDepth), v, 0)

barrayClear(D, v) == setSize(D, v, 0)

\* the bytes JValue::set(const char*, len) writes from the type on, but the
\* last
shortCells(str) == <<Byte(SSTRING)>> \o [i \in 1..Len(str) |-> Byte(str[i])] \o <<Byte(0)>>

\* set(const char*, len) without the length code in the last byte
setShortNoLen(D, v, str) == store(D, v, shortCells(str))

setShort(D, v, str) ==
  store(store(D, v, shortCells(str)), at(v, 1 + ShortString_MaxLen),
        <<Byte(ShortString_MaxLen - Len(str))>>)

\* JString::c_str
c_str(P, ref) ==
  IF P.strs[ref].own THEN <<"str", ref[1], ref[2]>>
  ELSE <<"ext", P.strs[ref].str[1], Len(P.strs[ref].str)>>

provided(D, r) == [D EXCEPT !.P = r.P, !.ref = r.ref, !.ok = r.found]

docProvide(D, str, own, key) ==
  IF D.ub THEN D
  ELSE IF AnyWild(D.P) THEN Fault(D)
  ELSE provided(D, provide(D.P, str, own, key))

\* JValue::set(const JString*, len) with the string the pool returned
setLong(D, v) ==
  IF D.ub THEN D
  ELSE setPtr(setSize(setType(D, v, LSTRING), v, Len(D.P.strs[D.ref].str)), v, c_str(D.P, D.ref))

\* minStringLength stopping one character earlier, at ShortString::MaxLen
minStringLengthBelow(str) ==
  IF Len(str) < ShortString_MaxLen THEN Len(str) ELSE ShortString_MaxSize

\* JValue::minStringLength
minStringLength(str) == IF Len(str) < ShortString_MaxSize THEN Len(str) ELSE ShortString_MaxSize

\* the body of operator=(const char*) and of operator=(char*) after deallocate
stringSet(D, v, str, own) ==
  IF minStringLength(str) < ShortString_MaxSize THEN setShort(D, v, str)
  ELSE setLong(docProvide(D, str, own, FALSE), v)

assignString(D, v, str, own) == stringSet(refDeallocate(D, v), v, str, own)

(***************************************************************************)
(* The document under edition                                              *)
(***************************************************************************)
Indexes == 0..(MaxSize - 1)

RECURSIVE PathsOf(_)
PathsOf(n) ==
  IF n = 0 THEN {<<>>}
  ELSE PathsOf(n - 1) \cup {Append(p, i) : p \in PathsOf(n - 1), i \in Indexes}

\* the places the editor is directed to: <<i, j>> is root[i][j]
Paths == PathsOf(MaxPath)

\* the cell of element or member i of the container at v
child(m, v, i) ==
  IF v = NoValue \/ i >= jsize(m, v) THEN NoValue
  ELSE IF jtype(m, v) = ARRAY /\ elementPtr(ArrayK, m, v, i)[1] = "opa"
  THEN raw(elementPtr(ArrayK, m, v, i))
  ELSE IF jtype(m, v) = OBJECT /\ elementPtr(ObjectK, m, v, i)[1] = "opa"
  THEN raw(elementPtr(ObjectK, m, v, i))
  ELSE NoValue

RECURSIVE resolve(_, _, _)
resolve(m, v, path) ==
  IF path = <<>> THEN v ELSE resolve(m, child(m, v, Head(path)), Tail(path))

cellOf(path) == resolve(mem, Root, path)

Start ==
  [CS |-> chunkSize, A |-> opa, m |-> mem, P |-> pool, ub |-> FALSE, ok |-> FALSE,
   ptr |-> BadPtr, ref |-> NullPtr]

\* the call leaves the document as D, or is one whose outcome the build decides
Done(D, call_) ==
  /\ NoAddr \notin InUse(D.A)
  /\ D.P.mAllocator.mFallbackCount <= MaxFallbackCount
  /\ D.A.mTotalDead <= MaxTotalDead
  /\ IF D.ub
     THEN ub' = TRUE /\ UNCHANGED <<opa, mem, pool, dlast>>
     ELSE opa' = D.A /\ mem' = D.m /\ pool' = D.P /\ dlast' = call_ /\ UNCHANGED ub
  /\ UNCHANGED <<chunkSize, live, call, last, firstRef, hdl>>

DocCall(op, path) == [op |-> op, path |-> path, str |-> <<>>]

Editable(path, types) == ~ub /\ cellOf(path) # NoValue /\ jtype(mem, cellOf(path)) \in types

ToNull(path) ==
  /\ ~ub /\ cellOf(path) # NoValue
  /\ Done(toNull(Start, cellOf(path)), DocCall("toNull", path))

ToArray(path) ==
  /\ ~ub /\ cellOf(path) # NoValue
  /\ Done(toArray(Start, cellOf(path)), DocCall("toArray", path))

ToBArray(path) ==
  /\ ~ub /\ cellOf(path) # NoValue
  /\ Done(toBArray(Start, cellOf(path)), DocCall("toBArray", path))

SubscriptIndex(path, data) ==
  /\ Editable(path, {NUL, ARRAY})
  /\ jtype(mem, cellOf(path)) = ARRAY => jsize(mem, cellOf(path)) < MaxSize
  /\ data \notin InUse(opa)
  /\ Done(subscriptIndex(Start, cellOf(path), data), DocCall("subscript", path))

ArrayPushBack(path, b, data) ==
  /\ Editable(path, {ARRAY})
  /\ jsize(mem, cellOf(path)) < MaxSize
  /\ data \notin InUse(opa)
  /\ Done(arrayPushBack(Start, cellOf(path), b, data), DocCall("arrayPushBack", path))

BArrayPushBack(path, b, data) ==
  /\ Editable(path, {BARRAY})
  /\ jsize(mem, cellOf(path)) < MaxBSize
  /\ data \notin InUse(opa)
  /\ Done(barrayPushBack(Start, cellOf(path), b, data), DocCall("barrayPushBack", path))

ArrayPopBack(path) ==
  /\ Editable(path, {ARRAY})
  /\ jsize(mem, cellOf(path)) > 0
  /\ Done(arrayPopBack(Start, cellOf(path)), DocCall("arrayPopBack", path))

BArrayPopBack(path) ==
  /\ Editable(path, {BARRAY})
  /\ jsize(mem, cellOf(path)) > 0
  /\ Done(barrayPopBack(Start, cellOf(path)), DocCall("barrayPopBack", path))

ArrayReserve(path, n, data) ==
  /\ Editable(path, {ARRAY})
  /\ data \notin InUse(opa)
  /\ Done(arrayReserve(Start, cellOf(path), n, data), DocCall("arrayReserve", path))

BArrayReserve(path, n, data) ==
  /\ Editable(path, {BARRAY})
  /\ data \notin InUse(opa)
  /\ Done(barrayReserve(Start, cellOf(path), n, data), DocCall("barrayReserve", path))

ArrayShrink(path, data) ==
  /\ Editable(path, {ARRAY})
  /\ data \notin InUse(opa)
  /\ Done(arrayShrink(Start, cellOf(path), data), DocCall("arrayShrink", path))

BArrayShrink(path, data) ==
  /\ Editable(path, {BARRAY})
  /\ data \notin InUse(opa)
  /\ Done(barrayShrink(Start, cellOf(path), data), DocCall("barrayShrink", path))

ArrayClear(path) ==
  /\ Editable(path, {ARRAY})
  /\ Done(arrayClear(Start, cellOf(path)), DocCall("arrayClear", path))

BArrayClear(path) ==
  /\ Editable(path, {BARRAY})
  /\ Done(barrayClear(Start, cellOf(path)), DocCall("barrayClear", path))

\* barrayValue(index) = b
BArraySet(path, index, b) ==
  /\ Editable(path, {BARRAY})
  /\ index < jsize(mem, cellOf(path))
  /\ Done(setElement(BArrayK, Start, cellOf(path), index, <<Byte(boolByte(b))>>),
          DocCall("barrayValue", path))

\* operator=(char*) when own, operator=(const char*) otherwise
AssignString(path, str, own) ==
  /\ ~ub /\ cellOf(path) # NoValue
  /\ Done(assignString(Start, cellOf(path), str, own),
          [op |-> "assignString", path |-> path, str |-> str])

\* Document::clearStrings
ClearStrings ==
  /\ ~ub
  /\ IF AnyWild(pool)
     THEN ub' = TRUE /\ UNCHANGED <<pool, dlast>>
     ELSE pool' = clear(pool) /\ dlast' = DocCall("clearStrings", <<>>) /\ UNCHANGED ub
  /\ UNCHANGED <<opa, mem, chunkSize, live, call, last, firstRef, hdl>>

\* stringPool()->releaseValues()
PoolReleaseValues ==
  /\ ~ub
  /\ IF AnyWild(pool)
     THEN ub' = TRUE /\ UNCHANGED <<pool, dlast>>
     ELSE /\ pool' = releaseValues(pool)
          /\ dlast' = DocCall("releaseValues", <<>>)
          /\ UNCHANGED ub
  /\ UNCHANGED <<opa, mem, chunkSize, live, call, last, firstRef, hdl>>

InitDoc ==
  /\ chunkSize = ChunkSize32
  /\ opa = PoolAllocator
  /\ pool = StringPool(ChunkSize32, 0)
  /\ mem = Put(<<>>, Root, <<Byte(NUL)>>)
  /\ dlast = NoDocCall
  /\ hdl = <<>>
  /\ ub = FALSE
  /\ live = {}
  /\ call = NoAllocCall
  /\ last = NoCall
  /\ firstRef = [s \in Strings |-> NullPtr]

(***************************************************************************)
(* Properties of the document                                              *)
(***************************************************************************)
\* PoolAllocator::countAllocated, modulo 2^64 as the uint64_t it is
RECURSIVE chunksAllocated(_, _)
chunksAllocated(A, i) ==
  IF i > A.mChunksCount THEN 0
  ELSE A.mChunks[i].firstAvail - A.mChunks[i].totalDead + chunksAllocated(A, i + 1)

RECURSIVE fallbacksAllocated(_, _)
fallbacksAllocated(A, i) ==
  IF i > Len(A.mFallbacks) THEN 0
  ELSE A.mFallbacks[i].size + fallbacksAllocated(A, i + 1)

countAllocated(A) == chunksAllocated(A, 1) + fallbacksAllocated(A, 1)

\* the cells reachable from the cell at v in at most depth steps
RECURSIVE Reachable(_, _, _)
Reachable(m, v, depth) ==
  IF v = NoValue THEN {}
  ELSE IF depth = 0 THEN {v}
  ELSE {v} \cup UNION {Reachable(m, child(m, v, i), depth - 1) : i \in 0..MaxSize}

ContainerTypes == {OBJECT, ARRAY, BARRAY}

\* C2: every Array, BArray and Object reachable from the root has
\* size <= capacity, after every editor operation (a cell whose size or
\* capacity bytes were never written is not counted against it).
C2_SizeWithinCapacity ==
  \A v \in Reachable(mem, Root, MaxDepth) :
    (jtype(mem, v) \in ContainerTypes /\ jsize(mem, v) # Unread /\ capacityOf(mem, v) # Unread)
      => jsize(mem, v) <= capacityOf(mem, v)

\* C4: resetting the root with toNull gives every buffer of the tree back to
\* the object allocator: its count of allocated bytes is zero afterwards.
C4_ToNullReleasesAll ==
  (dlast.op = "toNull" /\ dlast.path = <<>>) => countAllocated(opa) = 0

(***************************************************************************)
(* Dead cell recycling with ChunkSize 64                                   *)
(***************************************************************************)
\* the request sizes of the recycling scenario: a region, and one that fits
\* in its place
RecycleSizes == {15, 16}

InitRecycle ==
  /\ opa = PoolAllocator
  /\ chunkSize = ChunkSize64
  /\ live = {}
  /\ call = NoAllocCall
  /\ pool = StringPool(ChunkSize32, 0)
  /\ last = NoCall
  /\ firstRef = [s \in Strings |-> NullPtr]
  /\ ub = FALSE
  /\ IdleDoc

NextRecycle ==
  \/ \E size \in RecycleSizes, data \in Addrs \cup {NoAddr} : Allocate(size, data)
  \/ \E b \in live : Deallocate(b)
  \/ \E b \in live, newCapacity \in RecycleSizes : Realloc(b, newCapacity)

SpecRecycle == InitRecycle /\ [][NextRecycle]_vars

\* the last call was allocate(15) and the regions held are the one it returned,
\* A at offset 0 and C at offset 32 of the only chunk: B, between them, was
\* given back
AfterRecycle ==
  /\ call.op = "allocate" /\ call.size = 15
  /\ opa.mChunksCount = 1
  /\ live = {[ptr |-> <<opa.mChunks[1].data, 0>>, size |-> 16],
             [ptr |-> <<opa.mChunks[1].data, 32>>, size |-> 16],
             [ptr |-> call.ptr, size |-> 15]}

\* C18 as stated: the allocate of 15 bytes returns B's address and the chunk's
\* totalDead is 0 again.
C18_RecyclesDeadCell ==
  AfterRecycle => call.ptr = <<opa.mChunks[1].data, 16>> /\ opa.mChunks[1].totalDead = 0

\* C18: with ChunkSize 64 the tail of the chunk still has 16 bytes after A, B
\* and C, and allocate takes the tail before the dead cells: the allocate of
\* 15 bytes returns offset 48, firstAvail becomes 64 and B's 16 bytes stay
\* dead.
C18_TailBeforeDead ==
  AfterRecycle =>
    /\ call.ptr = <<opa.mChunks[1].data, 48>>
    /\ opa.mChunks[1].firstAvail = 64
    /\ opa.mChunks[1].totalDead = 16
    /\ opa.mChunks[1].firstDead = 16

C18_Witness == AfterRecycle /\ call.ptr[2] = 48 /\ opa.mTotalDead = 16

(***************************************************************************)
(* realloc                                                                 *)
(***************************************************************************)
\* the region b of a chunk is the live tail of that chunk
LiveTail(A, b) ==
  \E i \in 1..A.mChunksCount :
    /\ A.mChunks[i].data = b.ptr[1]
    /\ b.ptr[2] + alignSize(b.size) = A.mChunks[i].firstAvail

\* the chunk of A that holds the address ptr
chunkOf(A, ptr) == chunkAtData(A, ptr[1])

\* C19: realloc returns true exactly when the region lies in a chunk, ends at
\* the chunk's firstAvail and its offset plus the aligned newCapacity is at
\* most ChunkSize; then firstAvail is that sum and the region keeps its
\* address; otherwise the allocator is left as it was.
C19_ReallocInPlace ==
  [][\A b \in live : \A newCapacity \in AllocSizes :
       (call'.op = "realloc" /\ call'.ptr = b.ptr /\ call'.size = newCapacity
        /\ newCapacity > b.size) =>
         /\ call'.ok <=> /\ chunkable(chunkSize, alignSize(b.size))
                         /\ LiveTail(opa, b)
                         /\ b.ptr[2] + alignSize(newCapacity) <= chunkSize
         /\ call'.ok =>
              /\ chunkOf(opa', b.ptr).firstAvail = b.ptr[2] + alignSize(newCapacity)
              /\ [ptr |-> b.ptr, size |-> newCapacity] \in live'
         /\ ~call'.ok => opa' = opa /\ live' = live]_allocVars

\* a realloc grew in place a region that is the live tail of its chunk and
\* does not start the chunk
C19_Witness ==
  /\ call.op = "realloc" /\ call.ok
  /\ chunkOf(opa, call.ptr).firstAvail = call.ptr[2] + alignSize(call.size)
  /\ call.ptr[2] > 0

(***************************************************************************)
(* PoolAllocator::shrink, nominal scheme                                   *)
(***************************************************************************)
\* memmove of n Chunk records from slot src of the vector to slot dst
moveChunks(chunks, dst, src, n) ==
  [k \in 1..Len(chunks) |->
     IF k - 1 >= dst /\ k - 1 < dst + n THEN chunks[k - dst + src] ELSE chunks[k]]

\* j after the while loop: the slots i .. i+j-1 hold chunks with firstAvail = 0
RECURSIVE emptyRun(_, _, _, _)
emptyRun(chunks, count, i, j) ==
  IF i + j < count /\ chunks[i + j + 1].firstAvail = 0
  THEN emptyRun(chunks, count, i, j + 1)
  ELSE j

\* the compaction loop from slot i on
RECURSIVE compactFrom(_, _, _)
compactFrom(chunks, count, i) ==
  IF i >= count THEN chunks
  ELSE IF chunks[i + 1].firstAvail # 0 THEN compactFrom(chunks, count, i + 1)
  ELSE IF i + emptyRun(chunks, count, i, 1) = count THEN chunks
  ELSE compactFrom(moveChunks(chunks, i, i + emptyRun(chunks, count, i, 1),
                              count - i - emptyRun(chunks, count, i, 1)),
                   count, i + emptyRun(chunks, count, i, 1))

\* the chunks of the vector that hold a region, in the order of the vector
keptChunks(A) == SelectSeq(SubSeq(A.mChunks, 1, A.mChunksCount), LAMBDA c : c.firstAvail # 0)

\* the addresses shrink gives back to the base allocator
releasedChunks(A) ==
  {A.mChunks[i].data : i \in {k \in 1..A.mChunksCount : A.mChunks[k].firstAvail = 0}}

shrinkChunks(A) ==
  IF Len(keptChunks(A)) > 0
  THEN [A EXCEPT !.mChunks = compactFrom(A.mChunks, A.mChunksCount, 0),
                 !.mChunksCount = Len(keptChunks(A))]
  ELSE [A EXCEPT !.mChunks = <<>>, !.mChunksCapacity = 0, !.mChunksCount = 0]

\* the addresses the base allocator hands out for the chunks of the shrink
\* scenario
ChunkAddrs == (NoAddr + 1)..(NoAddr + MaxChunks)

InitChunks ==
  /\ opa = PoolAllocator
  /\ chunkSize = ChunkSize32
  /\ live = {}
  /\ call = NoAllocCall
  /\ pool = StringPool(ChunkSize32, 0)
  /\ last = NoCall
  /\ firstRef = [s \in Strings |-> NullPtr]
  /\ ub = FALSE
  /\ IdleDoc

\* once the vector names a chunk that was given back, or misses one that
\* holds a region, what later calls do is not followed
ShrinkChunks ==
  /\ ~ub
  /\ opa' = shrinkChunks(opa)
  /\ call' = [op |-> "shrink", ptr |-> <<0, 0>>, size |-> 0, ok |-> TRUE]
  /\ ub' = (SubSeq(opa'.mChunks, 1, opa'.mChunksCount) # keptChunks(opa))
  /\ UNCHANGED <<chunkSize, live, pool, last, firstRef, docVars>>

\* a chunk-sized region asked of, and given back to, the allocator
AllocateChunk(data) == ~ub /\ Allocate(chunkSize, data)

DeallocateChunk(b) == ~ub /\ Deallocate(b)

NextChunks ==
  \/ \E data \in ChunkAddrs : AllocateChunk(data)
  \/ \E b \in live : DeallocateChunk(b)
  \/ ShrinkChunks

SpecChunks == InitChunks /\ [][NextChunks]_vars

\* C20: after shrink() the chunk vector holds exactly the chunks that had
\* firstAvail # 0 before the call, in their previous order and unchanged, and
\* none that had firstAvail = 0; if none remains the vector is freed.
C20_ShrinkKeepsUsedChunks ==
  [][call'.op = "shrink" =>
       /\ SubSeq(opa'.mChunks, 1, opa'.mChunksCount) = keptChunks(opa)
       /\ \A i \in 1..opa'.mChunksCount : opa'.mChunks[i].data \notin releasedChunks(opa)
       /\ keptChunks(opa) = <<>> => opa'.mChunksCapacity = 0]_allocVars

NextPool ==
  \/ \E in \in ProvideInputs, key \in BOOLEAN : Provide(in[1], in[2], key)
  \/ ReleaseValues
  \/ Clear

NextShrink ==
  \/ NextPool
  \/ \E rehashStringPool \in BOOLEAN : Shrink(rehashStringPool)

SpecPool == InitPool /\ [][NextPool]_vars

NextAlloc ==
  \/ \E size \in AllocSizes, data \in Addrs \cup {NoAddr} : Allocate(size, data)
  \/ \E b \in live : Deallocate(b)
  \/ \E b \in live, newCapacity \in AllocSizes : Realloc(b, newCapacity)

SpecAlloc == InitAlloc /\ [][NextAlloc]_vars

SpecShrink == InitPool /\ [][NextShrink]_vars

\* the base allocator hands out its blocks at increasing addresses
FreshAddr(A) == Least((Addrs \cup {NoAddr}) \ InUse(A))

\* the document the editor builds: the root is an array of a BArray of flags
\* and an array of rows
FlagsPath == <<0>>

RowsPath == <<1>>

RowPaths == {<<1, 0>>}

NextDoc ==
  \/ \E path \in {<<>>, RowsPath} : SubscriptIndex(path, FreshAddr(opa))
  \/ ToBArray(FlagsPath)
  \/ BArrayPushBack(FlagsPath, FALSE, FreshAddr(opa))
  \/ BArrayPopBack(FlagsPath)
  \/ BArrayShrink(FlagsPath, FreshAddr(opa))
  \/ BArraySet(FlagsPath, 0, TRUE)
  \/ \E path \in RowPaths : ToArray(path)
  \/ \E path \in RowPaths : AssignString(path, Str15, TRUE)

SpecDoc == InitDoc /\ [][NextDoc]_vars

\* the editor on a document whose root is a BArray of flags
NextFlags ==
  \/ ToNull(<<>>)
  \/ ToBArray(<<>>)
  \/ \E b \in BOOLEAN : BArrayPushBack(<<>>, b, FreshAddr(opa))
  \/ BArrayPopBack(<<>>)
  \/ BArrayShrink(<<>>, FreshAddr(opa))
  \/ BArrayClear(<<>>)
  \/ \E index \in 0..(MaxBSize - 1), b \in BOOLEAN : BArraySet(<<>>, index, b)

SpecFlags == InitDoc /\ [][NextFlags]_vars

(***************************************************************************)
(* Strings in value cells                                                  *)
(***************************************************************************)
\* the strings assigned: of length 0, 14 and 15
DocStrings == {StrEmpty, Str14, Str15}

\* the root
StringPaths == PathsOf(0)

NextStrings ==
  \/ \E path \in StringPaths : ToNull(path)
  \/ \E path \in StringPaths, str \in DocStrings, own \in BOOLEAN :
       AssignString(path, str, own)
  \/ ClearStrings
  \/ PoolReleaseValues

SpecStrings == InitDoc /\ [][NextStrings]_vars

\* ShortString::len and the characters before it, as getShortString reads them
shortLen(m, v) == ShortString_MaxLen - rd8(m, at(v, 1 + ShortString_MaxLen))

shortChars(m, v) == [i \in 1..shortLen(m, v) |-> rd8(m, at(v, i))]

\* the string object the LongString cell at v points to is in the pool P
PooledString(P, m, v) ==
  \E ref \in Linked(P) :
    /\ ref \in DOMAIN P.strs
    /\ jptr(m, v) = c_str(P, ref)

\* C5: every LongString cell reachable from the root points to a string
\* object that is in the document's string pool.
C5_LongStringsPooled ==
  \A v \in Reachable(mem, Root, MaxDepth) :
    jtype(mem, v) = LSTRING => PooledString(pool, mem, v)

\* the cell the last call was directed to
lastCell == cellOf(dlast.path)

\* C11 as stated: a string is stored inline exactly when its length is under
\* 14, and one of 14 characters or more becomes a LongString.
C11_ShortBelowMaxShort ==
  dlast.op = "assignString" =>
    jtype(mem, lastCell) = (IF Len(dlast.str) < ShortString_MaxLen THEN SSTRING ELSE LSTRING)

\* C11: assigning a string stores it inline as a ShortString exactly when its
\* length is at most 14 (under ShortString::MaxSize = 15), and then leaves the
\* pool as it was; a string of 15 characters or more becomes a LongString of
\* that length whose pointer is the c_str of a pool string holding its bytes,
\* and the pool size grows by 1 exactly when the bytes were not pooled.
C11_ShortUpToMaxLen ==
  [][dlast'.op = "assignString" =>
       IF Len(dlast'.str) <= ShortString_MaxLen
       THEN /\ jtype(mem', cellOf(dlast'.path)) = SSTRING
            /\ pool' = pool
       ELSE /\ jtype(mem', cellOf(dlast'.path)) = LSTRING
            /\ jsize(mem', cellOf(dlast'.path)) = Len(dlast'.str)
            /\ get_(pool', dlast'.str) \in DOMAIN pool'.strs
            /\ jptr(mem', cellOf(dlast'.path)) = c_str(pool', get_(pool', dlast'.str))
            /\ pool'.mItemCount = pool.mItemCount
                                  + (IF Entries(pool, dlast'.str) = {} THEN 1 ELSE 0)]_vars

\* a string of 14 characters was stored inline in the root while the pool
\* holds the 15-character string
C11_Witness ==
  /\ dlast.op = "assignString" /\ dlast.str = Str14
  /\ jtype(mem, lastCell) = SSTRING
  /\ get_(pool, Str15) \in DOMAIN pool.strs

\* C12: a string of 0 to 14 characters assigned to a cell is a ShortString
\* that reads back with its length and its bytes, a NUL after them, and
\* 14 - length in the last byte of the cell.
C12_ShortStringReadsBack ==
  (dlast.op = "assignString" /\ Len(dlast.str) <= ShortString_MaxLen) =>
    /\ jtype(mem, lastCell) = SSTRING
    /\ shortLen(mem, lastCell) = Len(dlast.str)
    /\ shortChars(mem, lastCell) = dlast.str
    /\ rd8(mem, at(lastCell, 1 + Len(dlast.str))) = 0
    /\ rd8(mem, at(lastCell, SizeofJValue - 1)) = ShortString_MaxLen - Len(dlast.str)

\* the 14-character string reads back from a cell that held the empty string
\* before: its last byte is both the NUL and the length code
C12_Witness ==
  /\ dlast.op = "assignString" /\ dlast.str = Str14
  /\ shortChars(mem, lastCell) = Str14
  /\ rd8(mem, at(lastCell, SizeofJValue - 1)) = 0
(***************************************************************************)
(* Document::Handler.  The LFStack is a block of the base allocator, named *)
(* StackData; its bytes are in mem like any other.  A 64-bit number is the *)
(* pair <<hi, lo>>, hi the bits from 2^48 on: an int64_t is stored as the  *)
(* cells <<"i64", hi, lo, k>>, a uint64_t as "u64", and a double as "f64", *)
(* the pair then counting halves, so that 3.5 is <<0, 7>> and (double)1 is *)
(* <<0, 2>>.  A step of an event maps a record H to the next one: the      *)
(* members of the Handler, and the document as D.                          *)
(***************************************************************************)
numCells(kind, n) == [k \in 1..8 |-> <<kind, n[1], n[2], k - 1>>]

\* the int64_t taken for a double as it is
unwidened(n) == n

\* (double)i64
widened(n) == <<2 * n[1], 2 * n[2]>>

stackEnd(H) == <<StackData, H.size>>

lastValue(H) == <<StackData, H.size - SizeofJValue>>

increment(H, inc) == [H EXCEPT !.size = @ + inc]

\* size is a size_t: below 0 it wraps, and is kept here as the negative number
decrement(H, dec) == [H EXCEPT !.size = @ - dec]

\* LFStack::reserve: the events are few enough for every request to be within
\* the initial capacity, where reserve returns at its first test
reserve(H, newCapacity) == H

hstore(H, a, cs) == [H EXCEPT !.D = store(H.D, a, cs)]

hfault(H) == [H EXCEPT !.D = Fault(H.D)]

\* new (dst) JValue(), JValue(bool), JValue(JType)
inPlaceNull(H, dst) == hstore(H, dst, <<Byte(NUL)>>)

inPlaceBool(H, dst, b) == hstore(H, dst, <<Byte(boolType(b))>>)

inPlaceType(H, dst, type) == [H EXCEPT !.D = setContainer(H.D, dst, type)]

\* Number(int64_t), Number(uint64_t), Number(double): the type and the union
inPlaceNumber(H, dst, type, kind, n) ==
  hstore(hstore(H, dst, <<Byte(type)>>), at(dst, PtrOffset), numCells(kind, n))

\* the characters a length argument takes from str: up to its NUL when negative
taken(str, len) == IF len >= 0 THEN SubSeq(str, 1, len) ELSE str

\* ShortString(str, len): memcpy of len bytes, the NUL and the length code
shortString(H, dst, str, len) ==
  IF len < 0 \/ len > Len(str) THEN hfault(H)
  ELSE [H EXCEPT !.D = setShort(H.D, dst, SubSeq(str, 1, len))]

\* provide(str, false, found, len), then JValue(js, js->len())
longString(H, dst, str, own, len) ==
  [H EXCEPT !.D = setLong(docProvide(H.D, taken(str, len), own, FALSE), dst)]

\* inPlaceValue(void*, const char*, int32_t) and inPlaceValue(void*, char*,
\* int32_t), the latter taken when copy
inPlaceString(H, dst, str, copy, len) ==
  IF (IF len >= 0 THEN len ELSE minStringLength(str)) < ShortString_MaxSize
  THEN IF copy THEN shortString(H, dst, str, len)
       ELSE shortString(H, dst, str, IF len >= 0 THEN len ELSE minStringLength(str))
  ELSE longString(H, dst, str, copy, len)

\* new (dst) JMember(js) with the key provide returned
memberCells(H, dst) ==
  IF H.D.ub THEN H
  ELSE hstore(hstore(H, dst, ptrCells(<<"spa", H.D.ref[1], H.D.ref[2]>>)),
              at(dst, ValueOffset), <<Byte(NUL)>>)

inPlaceMember(H, dst, str, copy, len) ==
  memberCells([H EXCEPT !.D = docProvide(H.D, taken(str, len), copy, TRUE)], dst)

\* the element kinds of the pending segment of a specialized array
BoolK == [type |-> BARRAY, elem |-> SizeofBool]
Int64K == [type |-> IARRAY, elem |-> SizeofInt64]
DoubleK == [type |-> DARRAY, elem |-> SizeofDouble]

segment(H, K) == <<StackData, H.size - H.arraySize * K.elem>>

\* dValues[i] = (double)iValues[i] for i from 0 up
RECURSIVE toDoubles(_, _, _)
toDoubles(H, base, i) ==
  IF H.D.ub \/ i >= H.arraySize THEN H
  ELSE IF rdPtr(H.D.m, at(base, i * SizeofInt64))[1] # "i64" THEN hfault(H)
  ELSE toDoubles(hstore(H, at(base, i * SizeofDouble),
                        numCells("f64", widened(<<rdPtr(H.D.m, at(base, i * SizeofInt64))[2],
                                                  rdPtr(H.D.m, at(base, i * SizeofInt64))[3]>>))),
                 base, i + 1)

\* aValues[i].force(xValues[i])
forced(H, K, base, i) ==
  IF K.type = BARRAY
  THEN IF rd8(H.D.m, at(base, i)) \notin {0, 1} THEN hfault(H)
       ELSE hstore(H, at(base, i * SizeofJValue),
                   <<Byte(boolType(rd8(H.D.m, at(base, i)) = 1))>>)
  ELSE IF rdPtr(H.D.m, at(base, i * K.elem))[1] # (IF K.type = IARRAY THEN "i64" ELSE "f64")
  THEN hfault(H)
  ELSE inPlaceNumber(H, at(base, i * SizeofJValue),
                     IF K.type = IARRAY THEN INT64 ELSE DOUBLE,
                     IF K.type = IARRAY THEN "i64" ELSE "f64",
                     <<rdPtr(H.D.m, at(base, i * K.elem))[2],
                       rdPtr(H.D.m, at(base, i * K.elem))[3]>>)

\* for (i = mArraySize - 1; i >= 0; --i) aValues[i].force(xValues[i])
RECURSIVE toValues(_, _, _, _)
toValues(H, K, base, i) ==
  IF H.D.ub \/ i < 0 THEN H
  ELSE toValues(forced(H, K, base, i), K, base, i - 1)

\* the switch of convertedFor: the pending segment widened to JValues where it
\* lies, after the reserve of the bytes that takes
promoted(H) ==
  IF H.arrayType = BARRAY
  THEN toValues(reserve(H, H.size + H.arraySize * (SizeofJValue - SizeofBool) + SizeofJValue),
                BoolK, segment(H, BoolK), H.arraySize - 1)
  ELSE IF H.arrayType = IARRAY
  THEN toValues(reserve(H, H.size + H.arraySize * (SizeofJValue - SizeofInt64) + SizeofJValue),
                Int64K, segment(H, Int64K), H.arraySize - 1)
  ELSE IF H.arrayType = DARRAY
  THEN toValues(reserve(H, H.size + H.arraySize * (SizeofJValue - SizeofDouble) + SizeofJValue),
                DoubleK, segment(H, DoubleK), H.arraySize - 1)
  ELSE H

\* what convertedFor returns
specialized(H, type) ==
  \/ H.arrayType = type
  \/ H.arrayType = NUL
  \/ H.mIntToDouble /\ H.arrayType = DARRAY /\ type = IARRAY
  \/ H.mIntToDouble /\ H.arrayType = IARRAY /\ type = DARRAY

\* and the Handler it leaves
convertedFor(H, type) ==
  IF H.arrayType = type \/ H.arrayType = NUL
  THEN [H EXCEPT !.arraySize = @ + 1, !.arrayType = type]
  ELSE IF H.mIntToDouble /\ H.arrayType = DARRAY /\ type = IARRAY
  THEN [H EXCEPT !.arraySize = @ + 1]
  ELSE IF H.mIntToDouble /\ H.arrayType = IARRAY /\ type = DARRAY
  THEN [toDoubles(H, segment(H, Int64K), 0) EXCEPT !.arraySize = @ + 1, !.arrayType = DARRAY]
  ELSE [promoted(H) EXCEPT !.arrayType = ARRAY]

\* a JValue appended to the stack: reserve, the in-place constructor at end(),
\* increment
pushedValue(H, built) == increment(built, SizeofJValue)

\* memcpy(dst, src, size) into the region allocate returned as D.ptr
copied(D, src, size) ==
  IF D.ub THEN D
  ELSE IF D.ptr[1] # "opa" THEN Fault(D)
  ELSE [D EXCEPT !.m = Copy(D.m, raw(D.ptr), src, size)]

\* PoolAllocator::memPush from the stack: allocate, then memcpy
memPush(H, src, size, data) ==
  IF H.D.ub THEN H
  ELSE IF src[2] < 0 \/ src[2] + size > H.capa THEN hfault(H)
  ELSE [H EXCEPT !.D = copied(docAllocate(H.D, size, data), src, size)]

\* the value the closed container is: mRoot when the stack is empty
closedValue(H) == IF H.size = 0 THEN Root ELSE lastValue(H)

\* setRawArray and its siblings, all below LFJ_MAX_UINT16 elements
setRaw(D, v, type, ptr, count) ==
  setSize(setCapa(setPtr(IF type \in {ARRAY, OBJECT} THEN D ELSE setType(D, v, type), v, ptr),
                  v, count), v, count)

\* mStack.decrement(memSize), then setRaw on the value below with the pointer
\* memPush returned
closed(H, type, memSize, count) ==
  IF H.D.ub THEN H
  ELSE [decrement(H, memSize) EXCEPT
          !.D = setRaw(@, closedValue(decrement(H, memSize)), type, H.D.ptr, count)]

\* the body of endObject and of each case of endArray
moved(H, type, elem, count, data) ==
  closed(memPush(H, <<StackData, H.size - count * elem>>, count * elem, data),
         type, count * elem, count)

elemSize(type) ==
  IF type = ARRAY THEN SizeofJValue
  ELSE IF type = BARRAY THEN SizeofBool
  ELSE IF type = IARRAY THEN SizeofInt64
  ELSE SizeofDouble

startObject(H) ==
  IF ~H.mRootInit
  THEN [H EXCEPT !.D = toObject(H.D, Root), !.mRootInit = TRUE]
  ELSE IF H.mMemberVal
  THEN [inPlaceType(H, lastValue(H), OBJECT) EXCEPT !.mMemberVal = FALSE]
  ELSE pushedValue(H, inPlaceType(reserve(convertedFor(H, ARRAY), H.size + SizeofJValue),
                                  stackEnd(H), OBJECT))

endObject(H, memberCount, data) ==
  [(IF memberCount > 0 THEN moved(H, OBJECT, SizeofJMember, memberCount, data) ELSE H)
   EXCEPT !.arrayType = ARRAY]

startArray(H) ==
  [(IF ~H.mRootInit
    THEN [H EXCEPT !.D = toArray(H.D, Root), !.mRootInit = TRUE]
    ELSE IF H.mMemberVal
    THEN [inPlaceType(H, lastValue(H), ARRAY) EXCEPT !.mMemberVal = FALSE]
    ELSE pushedValue(H, inPlaceType(reserve(convertedFor(H, ARRAY), H.size + SizeofJValue),
                                    stackEnd(H), ARRAY)))
   EXCEPT !.arraySize = 0, !.arrayType = NUL]

endArray(H, elementCount, data) ==
  [(IF elementCount > 0 /\ H.arrayType \in {ARRAY, BARRAY, IARRAY, DARRAY}
    THEN moved(H, H.arrayType, elemSize(H.arrayType), elementCount, data)
    ELSE H)
   EXCEPT !.arrayType = ARRAY]

pushKey(H, str, copy, length) ==
  [increment(inPlaceMember(reserve(H, H.size + SizeofJMember), stackEnd(H), str, copy, length),
             SizeofJMember)
   EXCEPT !.mMemberVal = TRUE]

pushNull(H) ==
  IF H.mMemberVal THEN [H EXCEPT !.mMemberVal = FALSE]
  ELSE pushedValue(H, inPlaceNull(reserve(convertedFor(H, ARRAY), H.size + SizeofJValue),
                                  stackEnd(H)))

pushBool(H, b) ==
  IF H.mMemberVal
  THEN [inPlaceBool(H, lastValue(H), b) EXCEPT !.mMemberVal = FALSE]
  ELSE IF specialized(H, BARRAY)
  THEN increment(hstore(reserve(convertedFor(H, BARRAY), H.size + SizeofBool), stackEnd(H),
                        <<Byte(boolByte(b))>>),
                 SizeofBool)
  ELSE pushedValue(H, inPlaceBool(reserve(convertedFor(H, BARRAY), H.size + SizeofJValue),
                                  stackEnd(H), b))

pushInt64(H, i64) ==
  IF H.mMemberVal
  THEN [inPlaceNumber(H, lastValue(H), INT64, "i64", i64) EXCEPT !.mMemberVal = FALSE]
  ELSE IF specialized(H, IARRAY)
  THEN IF convertedFor(H, IARRAY).arrayType = IARRAY
       THEN increment(hstore(reserve(convertedFor(H, IARRAY), H.size + SizeofInt64),
                             stackEnd(H), numCells("i64", i64)),
                      SizeofInt64)
       ELSE increment(hstore(reserve(convertedFor(H, IARRAY), H.size + SizeofDouble),
                             stackEnd(H), numCells("f64", widened(i64))),
                      SizeofDouble)
  ELSE pushedValue(H, inPlaceNumber(reserve(convertedFor(H, IARRAY), H.size + SizeofJValue),
                                    stackEnd(H), INT64, "i64", i64))

pushUInt64(H, u64) ==
  IF u64[1] <= LFJ_MAX_INT64_hi THEN pushInt64(H, u64)
  ELSE IF H.mMemberVal
  THEN [inPlaceNumber(H, lastValue(H), UINT64, "u64", u64) EXCEPT !.mMemberVal = FALSE]
  ELSE pushedValue(H, inPlaceNumber(reserve(convertedFor(H, ARRAY), H.size + SizeofJValue),
                                    stackEnd(H), UINT64, "u64", u64))

pushDouble(H, d) ==
  IF H.mMemberVal
  THEN [inPlaceNumber(H, lastValue(H), DOUBLE, "f64", d) EXCEPT !.mMemberVal = FALSE]
  ELSE IF specialized(H, DARRAY)
  THEN increment(hstore(reserve(convertedFor(H, DARRAY), H.size + SizeofDouble), stackEnd(H),
                        numCells("f64", d)),
                 SizeofDouble)
  ELSE pushedValue(H, inPlaceNumber(reserve(convertedFor(H, DARRAY), H.size + SizeofJValue),
                                    stackEnd(H), DOUBLE, "f64", d))

pushString(H, str, copy, length) ==
  IF H.mMemberVal
  THEN [inPlaceString(H, lastValue(H), str, copy, length) EXCEPT !.mMemberVal = FALSE]
  ELSE pushedValue(H, inPlaceString(reserve(convertedFor(H, ARRAY), H.size + SizeofJValue),
                                    stackEnd(H), str, copy, length))

\* finalize(false): the stack is released and the members are reset
finalize(H) ==
  [H EXCEPT !.size = 0, !.capa = 0, !.mMemberVal = FALSE, !.mRootInit = FALSE, !.arraySize = 0,
            !.arrayType = NUL]
(***************************************************************************)
(* The handler fed with events.  Beside the Handler's members, hdl keeps   *)
(* what its client knows: the containers open (kind, the keys and the      *)
(* elements pushed to each, and whether a key awaits its value), the       *)
(* container the root was closed as, the last event and the number of      *)
(* events.  An element is <<tag, a, b>>: a number with its pair, a string  *)
(* with its length, a container with its count.                            *)
(***************************************************************************)
NoEvent == [op |-> "none", str |-> <<>>, copy |-> FALSE, len |-> 0]

Event(op) == [op |-> op, str |-> <<>>, copy |-> FALSE, len |-> 0]

StringEvent(op, str, copy, len) == [op |-> op, str |-> str, copy |-> copy, len |-> len]

\* Handler(doc, allowIntToDouble) on a fresh document
NewHandler(allowIntToDouble) ==
  [size |-> 0, capa |-> StackCapacity, mMemberVal |-> FALSE, mRootInit |-> FALSE,
   arraySize |-> 0, arrayType |-> NUL, mIntToDouble |-> allowIntToDouble,
   open |-> <<>>, root |-> <<>>, ev |-> NoEvent, n |-> 0]

HStart ==
  [D |-> Start, size |-> hdl.size, capa |-> hdl.capa, mMemberVal |-> hdl.mMemberVal,
   mRootInit |-> hdl.mRootInit, arraySize |-> hdl.arraySize, arrayType |-> hdl.arrayType,
   mIntToDouble |-> hdl.mIntToDouble]

\* the event leaves the handler and the document as H, or is one whose outcome
\* the build decides
HDone(H, ev_, open_, root_) ==
  /\ NoAddr \notin InUse(H.D.A)
  /\ H.D.P.mAllocator.mFallbackCount <= MaxFallbackCount
  /\ IF H.D.ub
     THEN /\ ub' = TRUE
          /\ hdl' = [hdl EXCEPT !.open = open_, !.root = root_, !.ev = ev_, !.n = @ + 1]
          /\ UNCHANGED <<opa, mem, pool>>
     ELSE /\ opa' = H.D.A /\ mem' = H.D.m /\ pool' = H.D.P
          /\ hdl' = [size |-> H.size, capa |-> H.capa, mMemberVal |-> H.mMemberVal,
                     mRootInit |-> H.mRootInit, arraySize |-> H.arraySize,
                     arrayType |-> H.arrayType, mIntToDouble |-> H.mIntToDouble,
                     open |-> open_, root |-> root_, ev |-> ev_, n |-> hdl.n + 1]
          /\ UNCHANGED ub
  /\ UNCHANGED <<chunkSize, live, call, last, firstRef, dlast>>

Frame(kind) == [kind |-> kind, keys |-> <<>>, items |-> <<>>, pending |-> FALSE]

top == hdl.open[Len(hdl.open)]

\* the open containers once the innermost received the element item
added(item) ==
  [hdl.open EXCEPT ![Len(hdl.open)] =
     [@ EXCEPT !.items = Append(@, item), !.pending = FALSE]]

\* and once it was closed: it is an element of the one around it
popped ==
  IF Len(hdl.open) = 1 THEN <<>>
  ELSE [SubSeq(hdl.open, 1, Len(hdl.open) - 1) EXCEPT ![Len(hdl.open) - 1] =
          [@ EXCEPT !.items = Append(@, <<top.kind, Len(top.items), 0>>), !.pending = FALSE]]

\* the events go on: the handler was not finalized, and the bounds allow one more
Going == ~ub /\ hdl.capa > 0 /\ hdl.n < MaxEvents

\* a value may come: in an array with room, or after a key
ValueDue ==
  /\ Going /\ hdl.open # <<>>
  /\ Len(top.items) < MaxElements
  /\ top.kind = OBJECT => top.pending

\* a container may start: as the root, or where a value may come
ContainerDue ==
  IF hdl.open = <<>> THEN Going /\ hdl.root = <<>>
  ELSE ValueDue /\ Len(hdl.open) < MaxNesting

StartObject ==
  /\ ContainerDue
  /\ HDone(startObject(HStart), Event("startObject"),
           Append(IF hdl.open = <<>> THEN <<>> ELSE [hdl.open EXCEPT ![Len(hdl.open)].pending = FALSE],
                  Frame(OBJECT)),
           hdl.root)

StartArray ==
  /\ ContainerDue
  /\ HDone(startArray(HStart), Event("startArray"),
           Append(IF hdl.open = <<>> THEN <<>> ELSE [hdl.open EXCEPT ![Len(hdl.open)].pending = FALSE],
                  Frame(ARRAY)),
           hdl.root)

\* the client closes a container with the number of elements it pushed
EndObject(data) ==
  /\ Going /\ hdl.open # <<>>
  /\ top.kind = OBJECT /\ ~top.pending
  /\ HDone(endObject(HStart, Len(top.items), data), Event("endObject"), popped,
           IF Len(hdl.open) = 1 THEN <<top>> ELSE hdl.root)

EndArray(data) ==
  /\ Going /\ hdl.open # <<>>
  /\ top.kind = ARRAY
  /\ HDone(endArray(HStart, Len(top.items), data), Event("endArray"), popped,
           IF Len(hdl.open) = 1 THEN <<top>> ELSE hdl.root)

PushKey(str, copy, length) ==
  /\ Going /\ hdl.open # <<>>
  /\ top.kind = OBJECT /\ ~top.pending /\ Len(top.items) < MaxElements
  /\ HDone(pushKey(HStart, str, copy, length), StringEvent("pushKey", str, copy, length),
           [hdl.open EXCEPT ![Len(hdl.open)] =
              [@ EXCEPT !.keys = Append(@, taken(str, length)), !.pending = TRUE]],
           hdl.root)

PushNull ==
  /\ ValueDue
  /\ HDone(pushNull(HStart), Event("pushNull"), added(<<NUL, 0, 0>>), hdl.root)

PushBool(b) ==
  /\ ValueDue
  /\ HDone(pushBool(HStart, b), Event("pushBool"), added(<<boolType(b), 0, 0>>), hdl.root)

PushInt64(i64) ==
  /\ ValueDue
  /\ HDone(pushInt64(HStart, i64), Event("pushInt64"), added(<<INT64, i64[1], i64[2]>>),
           hdl.root)

\* a value up to LFJ_MAX_INT64 is one the document holds as an Int64
PushUInt64(u64) ==
  /\ ValueDue
  /\ HDone(pushUInt64(HStart, u64), Event("pushUInt64"),
           added(<<IF u64[1] <= LFJ_MAX_INT64_hi THEN INT64 ELSE UINT64, u64[1], u64[2]>>),
           hdl.root)

PushDouble(d) ==
  /\ ValueDue
  /\ HDone(pushDouble(HStart, d), Event("pushDouble"), added(<<DOUBLE, d[1], d[2]>>), hdl.root)

PushString(str, copy, length) ==
  /\ ValueDue
  /\ HDone(pushString(HStart, str, copy, length), StringEvent("pushString", str, copy, length),
           added(<<IF Len(taken(str, length)) <= ShortString_MaxLen THEN SSTRING ELSE LSTRING,
                   Len(taken(str, length)), 0>>),
           hdl.root)

\* finalize(false) once the root was closed
Finalize ==
  /\ ~ub /\ hdl.capa > 0 /\ hdl.open = <<>> /\ hdl.root # <<>>
  /\ HDone(finalize(HStart), Event("finalize"), hdl.open, hdl.root)

InitHandler ==
  /\ chunkSize = ChunkSize64
  /\ opa = PoolAllocator
  /\ pool = StringPool(ChunkSize32, 0)
  /\ mem = Put(<<>>, Root, <<Byte(NUL)>>)
  /\ dlast = NoDocCall
  /\ \E allowIntToDouble \in BOOLEAN : hdl = NewHandler(allowIntToDouble)
  /\ ub = FALSE
  /\ live = {}
  /\ call = NoAllocCall
  /\ last = NoCall
  /\ firstRef = [s \in Strings |-> NullPtr]

\* the numbers pushed: 1 and 2, 2^63 as a uint64_t, 3.5
Int64s == {<<0, 1>>, <<0, 2>>}
UInt64s == {<<0, 1>>, <<LFJ_MAX_INT64_hi + 1, 0>>}
Doubles == {<<0, 7>>}
\* the strings pushed, and the lengths they are given with
HandlerStrings == {StrA, Str15}
Lengths(str) == {0 - 1, Len(str)}

NextHandler ==
  \/ StartObject
  \/ StartArray
  \/ EndObject(FreshAddr(opa))
  \/ EndArray(FreshAddr(opa))
  \/ \E str \in HandlerStrings, copy \in BOOLEAN : \E length \in Lengths(str) :
       PushKey(str, copy, length)
  \/ PushNull
  \/ \E b \in BOOLEAN : PushBool(b)
  \/ \E i64 \in Int64s : PushInt64(i64)
  \/ \E u64 \in UInt64s : PushUInt64(u64)
  \/ \E d \in Doubles : PushDouble(d)
  \/ \E str \in HandlerStrings, copy \in BOOLEAN : \E length \in Lengths(str) :
       PushString(str, copy, length)
  \/ Finalize

SpecHandler == InitHandler /\ [][NextHandler]_vars

(***************************************************************************)
(* What the handler built, read from the document                          *)
(***************************************************************************)
\* the root was closed by the last event
RootClosed == hdl.open = <<>> /\ hdl.root # <<>> /\ hdl.ev.op \in {"endArray", "endObject"}

rootFrame == hdl.root[1]

\* the array type an element asks convertedFor for
kindOf(item) ==
  IF item[1] \in {JTRUE, JFALSE} THEN BARRAY
  ELSE IF item[1] = INT64 THEN IARRAY
  ELSE IF item[1] = DOUBLE THEN DARRAY
  ELSE ARRAY

kinds(items) == {kindOf(items[i]) : i \in DOMAIN items}

ArrayTypes == {ARRAY, BARRAY, IARRAY, DARRAY}

\* the value cell at v holds the element item
holds(m, v, item) ==
  IF item[1] = ARRAY THEN jtype(m, v) \in ArrayTypes /\ jsize(m, v) = item[2]
  ELSE /\ jtype(m, v) = item[1]
       /\ item[1] = OBJECT => jsize(m, v) = item[2]
       /\ item[1] = INT64 => rdPtr(m, at(v, PtrOffset)) = <<"i64", item[2], item[3]>>
       /\ item[1] = UINT64 => rdPtr(m, at(v, PtrOffset)) = <<"u64", item[2], item[3]>>
       /\ item[1] = DOUBLE => rdPtr(m, at(v, PtrOffset)) = <<"f64", item[2], item[3]>>
       /\ item[1] = SSTRING => shortLen(m, v) = item[2]
       /\ item[1] = LSTRING => jsize(m, v) = item[2]

\* the buffer of the container at v
buffer(m, v) == IF jptr(m, v)[1] = "opa" THEN raw(jptr(m, v)) ELSE NoValue

\* the root is a generic Array of the elements items, in their order
GenericArray(m, items) ==
  /\ jtype(m, Root) = ARRAY
  /\ jsize(m, Root) = Len(items)
  /\ items # <<>> => buffer(m, Root) # NoValue
  /\ \A i \in DOMAIN items : holds(m, at(buffer(m, Root), (i - 1) * SizeofJValue), items[i])

\* the double an element of a DArray is, in halves: the integer i is i.0
asDouble(item) ==
  IF item[1] = INT64 THEN <<item[2] + item[2], item[3] + item[3]>> ELSE <<item[2], item[3]>>

\* the root is a DArray of the numbers items, in their order
DoubleArray(m, items) ==
  /\ jtype(m, Root) = DARRAY
  /\ jsize(m, Root) = Len(items)
  /\ buffer(m, Root) # NoValue
  /\ \A i \in DOMAIN items :
       rdPtr(m, at(buffer(m, Root), (i - 1) * SizeofDouble))
         = <<"f64", asDouble(items[i])[1], asDouble(items[i])[2]>>

\* C13: with allowIntToDouble, a root array that received only integers and
\* doubles, one double at least, is closed as a DArray of as many doubles, the
\* numbers pushed in their order, each integer widened to a double.
C13_IntsWidenedInDArray ==
  (/\ RootClosed /\ rootFrame.kind = ARRAY /\ hdl.mIntToDouble
   /\ kinds(rootFrame.items) \subseteq {IARRAY, DARRAY}
   /\ DARRAY \in kinds(rootFrame.items))
    => ~ub /\ DoubleArray(mem, rootFrame.items)

\* 1, 2, 3.5 were pushed and the root is the DArray [1.0, 2.0, 3.5]
C13_Witness ==
  /\ RootClosed /\ hdl.mIntToDouble /\ ~ub
  /\ rootFrame.items = <<(<<INT64, 0, 1>>), (<<INT64, 0, 2>>), (<<DOUBLE, 0, 7>>)>>
  /\ DoubleArray(mem, rootFrame.items)
  /\ rdPtr(mem, buffer(mem, Root)) = <<"f64", 0, 2>>

\* the elements are of differing kinds, other than integers with doubles
\* under allowIntToDouble
Mixed(items) ==
  /\ Cardinality(kinds(items)) >= 2
  /\ ~(hdl.mIntToDouble /\ kinds(items) = {IARRAY, DARRAY})

\* C14: a root array that received elements of differing kinds is closed as
\* a generic Array of as many elements, those pushed in their order, each
\* with its tag and its value.
C14_MixedArrayGeneric ==
  (RootClosed /\ rootFrame.kind = ARRAY /\ Mixed(rootFrame.items))
    => ~ub /\ GenericArray(mem, rootFrame.items)

\* the type a walked array is to come back with
arrayType(items) ==
  IF Cardinality(kinds(items)) = 1 THEN CHOOSE k \in kinds(items) : TRUE ELSE ARRAY

\* the key of member i of the root is the string key
keyed(P, m, i, key) ==
  /\ rdPtr(m, at(buffer(m, Root), (i - 1) * SizeofJMember))[1] = "spa"
  /\ raw(rdPtr(m, at(buffer(m, Root), (i - 1) * SizeofJMember))) \in DOMAIN P.strs
  /\ P.strs[raw(rdPtr(m, at(buffer(m, Root), (i - 1) * SizeofJMember)))].str = key

\* the root is the container frame: its kind, its keys, its elements
Rebuilt(P, m, frame) ==
  IF frame.kind = OBJECT
  THEN /\ jtype(m, Root) = OBJECT
       /\ jsize(m, Root) = Len(frame.items)
       /\ frame.items # <<>> => buffer(m, Root) # NoValue
       /\ \A i \in DOMAIN frame.items :
            /\ keyed(P, m, i, frame.keys[i])
            /\ holds(m, at(buffer(m, Root), (i - 1) * SizeofJMember + ValueOffset),
                     frame.items[i])
  ELSE IF arrayType(frame.items) = ARRAY THEN GenericArray(m, frame.items)
  ELSE /\ jtype(m, Root) = arrayType(frame.items)
       /\ jsize(m, Root) = Len(frame.items)
       /\ buffer(m, Root) # NoValue
       /\ \A i \in DOMAIN frame.items :
            IF arrayType(frame.items) = BARRAY
            THEN rd8(m, at(buffer(m, Root), i - 1)) = boolByte(frame.items[i][1] = JTRUE)
            ELSE rdPtr(m, at(buffer(m, Root), (i - 1) * SizeofInt64))
                   = <<IF arrayType(frame.items) = IARRAY THEN "i64" ELSE "f64",
                       frame.items[i][2], frame.items[i][3]>>

\* C15: the events of a walk over a tree, given to a handler on a fresh
\* document, rebuild the tree: the root has the kind, the keys, the elements
\* in their order, their tags and their values (integers walked with doubles
\* under allowIntToDouble, which come back as doubles, set aside).
C15_WalkRebuildsTree ==
  (RootClosed /\ ~(hdl.mIntToDouble /\ kinds(rootFrame.items) = {IARRAY, DARRAY}))
    => ~ub /\ Rebuilt(pool, mem, rootFrame)

\* the event leaves the handler, the document and the pool as H
Leaves(H) ==
  /\ ub' = H.D.ub
  /\ ~H.D.ub =>
       /\ mem' = H.D.m /\ pool' = H.D.P /\ opa' = H.D.A
       /\ hdl'.size = H.size /\ hdl'.mMemberVal = H.mMemberVal
       /\ hdl'.arraySize = H.arraySize /\ hdl'.arrayType = H.arrayType

\* C16: pushKey and pushString given the length -1 leave what they leave
\* when given the length of the string up to its NUL, with copy or without,
\* for a short and for a long string.
C16_ScanToNul ==
  [][(hdl'.n = hdl.n + 1 /\ hdl'.ev.len = 0 - 1) =>
       (/\ hdl'.ev.op = "pushKey" =>
             Leaves(pushKey(HStart, hdl'.ev.str, hdl'.ev.copy, Len(hdl'.ev.str)))
        /\ hdl'.ev.op = "pushString" =>
             Leaves(pushString(HStart, hdl'.ev.str, hdl'.ev.copy, Len(hdl'.ev.str))))]_vars

\* C17: when the last end event of a balanced sequence has closed the root,
\* every event has returned, the stack is empty, no member value is awaited
\* and the root is the container of the first event with the elements it
\* was closed with.
C17_StackEmptyAtEnd ==
  RootClosed =>
    /\ ~ub
    /\ hdl.size = 0
    /\ ~hdl.mMemberVal
    /\ jtype(mem, Root) \in (IF rootFrame.kind = OBJECT THEN {OBJECT} ELSE ArrayTypes)
    /\ jsize(mem, Root) = Len(rootFrame.items)

(***************************************************************************)
(* Objects: members and their keys                                         *)
(***************************************************************************)
\* memberAt(members, i)
memberAt(m, v, i) == shift(values(ObjectK, m, v), i * SizeofJMember)

\* JMember::jkey
jkey(m, member) == rdPtr(m, raw(member))

keyPtr(ref) == <<"spa", ref[1], ref[2]>>

\* initMember: new (m) JMember(js), the value born Null
initMember(D, member, ref) ==
  storeAt(storeAt(D, member, ptrCells(keyPtr(ref))), shift(member, ValueOffset), <<Byte(NUL)>>)

\* JValue::incOSize(key)
incOSize(D, v, ref) ==
  IF D.ub THEN D
  ELSE sizeStep(initMember(D, memberAt(D.m, v, jsize(D.m, v)), ref), v, 1)

\* provide with the key argument false
provideUnflagged(D, key, own) == docProvide(D, key, own, FALSE)

\* provide(key, true, found, len) of the editor
provideKey(D, key, own) == docProvide(D, key, own, TRUE)

\* RefValue::objectIncSize(key, len), by provide or by provideInterned
objectIncSize(D, v, key, own, data) ==
  incOSize(provideKey(grownIfFull(ObjectK, D, v, data), key, own), v,
           provideKey(grownIfFull(ObjectK, D, v, data), key, own).ref)

\* a lookup that finds no member
getValueNone(m, v, ref) == NoValue

\* Document::getValue: the value of the first member whose key is jKey
getValue(m, v, ref) ==
  LET hits == {i \in 0..(jsize(m, v) - 1) : jkey(m, memberAt(m, v, i)) = keyPtr(ref)}
  IN  IF hits = {} THEN NoValue ELSE raw(elementPtr(ObjectK, m, v, Least(hits)))

\* the new element of operator[](key) once the key was provided as Pr
subscriptMember(Pr, v, data) ==
  IF Pr.ub THEN Pr
  ELSE IF Pr.ok /\ getValue(Pr.m, v, Pr.ref) # NoValue THEN Pr
  ELSE incOSize(grownIfFull(ObjectK, Pr, v, data), v, Pr.ref)

\* RefValue::operator[](const char*) and operator[](char*)
subscriptKey(D, v, key, own, data) ==
  subscriptMember(provideKey(IF jtype(D.m, v) = NUL THEN setContainer(D, v, OBJECT) ELSE D,
                             key, own),
                  v, data)

\* JMember::setKey with the key provided as Pr
keySet(Pr, member) == IF Pr.ub THEN Pr ELSE storeAt(Pr, member, ptrCells(keyPtr(Pr.ref)))

\* RefMember::setKey
setKey(D, member, key) == keySet(provideKey(D, key, FALSE), member)

\* JValue::set(bool) on the value objectIncSize returned
lastSet(D, v, b) ==
  IF D.ub THEN D
  ELSE storeAt(D, elementPtr(ObjectK, D.m, v, jsize(D.m, v) - 1), <<Byte(boolType(b))>>)

\* RefValue::objectPushBack(key, bool)
objectPushBack(D, v, key, own, b, data) == lastSet(objectIncSize(D, v, key, own, data), v, b)

\* no handler is in the middle of its events
Parsed == hdl.open = <<>>

\* the value operator[](key) returns when it leaves the document as R: val
subscriptValue(D, R, v, key, own) ==
  LET Pr == provideKey(IF jtype(D.m, v) = NUL THEN setContainer(D, v, OBJECT) ELSE D, key, own)
  IN  IF Pr.ok /\ getValue(Pr.m, v, Pr.ref) # NoValue THEN getValue(Pr.m, v, Pr.ref)
      ELSE IF elementPtr(ObjectK, R.m, v, jsize(R.m, v) - 1)[1] = "opa"
      THEN raw(elementPtr(ObjectK, R.m, v, jsize(R.m, v) - 1))
      ELSE NoValue

\* RefValue(doc, the cell at path)[key]
Subscript(path, key, own, data) ==
  /\ Parsed /\ Editable(path, {NUL, OBJECT})
  /\ Done(subscriptKey(Start, cellOf(path), key, own, data),
          [op |-> "subscriptKey", path |-> path, str |-> key,
           arg |-> subscriptValue(Start, subscriptKey(Start, cellOf(path), key, own, data),
                                  cellOf(path), key, own)])

\* operator[](key) on an object that has room for a member
SubscriptKey(path, key, own, data) ==
  /\ jtype(mem, cellOf(path)) = OBJECT => jsize(mem, cellOf(path)) < MaxSize
  /\ Subscript(path, key, own, data)

ObjectPushBack(path, key, own, b, data) ==
  /\ Parsed /\ Editable(path, {OBJECT})
  /\ jsize(mem, cellOf(path)) < MaxSize
  /\ Done(objectPushBack(Start, cellOf(path), key, own, b, data),
          [op |-> "objectPushBack", path |-> path, str |-> key])

\* RefMember(doc, member i of the object at path).setKey(key)
SetKey(path, i, key) ==
  /\ Parsed /\ Editable(path, {OBJECT})
  /\ i < jsize(mem, cellOf(path))
  /\ Done(setKey(Start, memberAt(mem, cellOf(path), i), key),
          [op |-> "setKey", path |-> Append(path, i), str |-> key])

\* a long string assigned to the value of a member
AssignValue(path, str, own) == Parsed /\ AssignString(path, str, own)

ReleaseValuesParsed == Parsed /\ PoolReleaseValues

InitKeys ==
  /\ chunkSize = ChunkSize64
  /\ opa = PoolAllocator
  /\ pool = StringPool(ChunkSize32, 0)
  /\ mem = Put(<<>>, Root, <<Byte(NUL)>>)
  /\ dlast = NoDocCall
  /\ hdl = NewHandler(TRUE)
  /\ ub = FALSE
  /\ live = {}
  /\ call = NoAllocCall
  /\ last = NoCall
  /\ firstRef = [s \in Strings |-> NullPtr]

\* the editor did not touch the document yet: the handler fills a fresh one
Fresh == dlast = NoDocCall

StartObjectFresh == Fresh /\ StartObject

\* the keys given to the editor and to the handler
KeyStrings == {StrA, Str15}

\* the long strings given as values: one that is a key too, one that is not
ValueStrings == {Str15, StrLong}

NextKeys ==
  \/ \E key \in KeyStrings : SubscriptKey(<<>>, key, FALSE, FreshAddr(opa))
  \/ \E key \in KeyStrings : ObjectPushBack(<<>>, key, TRUE, TRUE, FreshAddr(opa))
  \/ \E key \in KeyStrings : SetKey(<<>>, 0, key)
  \/ \E str \in ValueStrings : AssignValue(<<0>>, str, TRUE)
  \/ ReleaseValuesParsed
  \/ StartObjectFresh
  \/ \E key \in KeyStrings : PushKey(key, TRUE, 0 - 1)
  \/ PushNull
  \/ EndObject(FreshAddr(opa))

SpecKeys == InitKeys /\ [][NextKeys]_vars

\* the members of the objects reachable from the root, as <<object, index>>
Members ==
  {<<v, i>> \in Reachable(mem, Root, MaxDepth) \X (0..(MaxElements - 1)) :
     jtype(mem, v) = OBJECT /\ i < jsize(mem, v)}

\* the member's key is a string of the pool with the key flag
Flagged(P, m, member) ==
  /\ jkey(m, member)[1] = "spa"
  /\ raw(jkey(m, member)) \in DOMAIN P.strs
  /\ P.strs[raw(jkey(m, member))].key

\* C6: after any sequence of operator[](key), objectPushBack, setKey and
\* pushKey events, with releaseValues in between, the key of every member
\* of every object of the document is a string still in the pool, its key
\* flag set.
C6_MemberKeysFlagged ==
  ~ub => \A x \in Members : Flagged(pool, mem, memberAt(mem, x[1], x[2]))

\* the value of the member is a long string that left the pool
Released(P, m, value) ==
  /\ jtype(m, value) = LSTRING
  /\ jptr(m, value)[1] = "str"
  /\ raw(jptr(m, value)) \notin DOMAIN P.strs

\* releaseValues took the string of a value out of the pool and left the keys
\* of the members, of which the handler set one and the editor another
C6_Witness ==
  /\ dlast.op = "releaseValues" /\ ~ub
  /\ hdl.root # <<>>
  /\ Cardinality(Members) > Len(hdl.root[1].keys)
  /\ Len(hdl.root[1].keys) > 0
  /\ \A x \in Members : Flagged(pool, mem, memberAt(mem, x[1], x[2]))
  /\ \E x \in Members : Released(pool, mem, raw(elementPtr(ObjectK, mem, x[1], x[2])))

(***************************************************************************)
(* shrink called again on the object allocator                             *)
(***************************************************************************)
\* the bytes PoolAllocator::shrink gives back to the base allocator: the data
\* of every chunk whose firstAvail is 0, and the vector when none is left
shrinkFreed(CS, A) ==
  Cardinality({i \in 1..A.mChunksCount : A.mChunks[i].firstAvail = 0}) * CS
  + (IF keptChunks(A) = <<>> THEN A.mChunksCapacity * SizeofChunk ELSE 0)

\* shrink called right after shrink returned.  A chunk record the first call
\* left in the vector with firstAvail = 0 has its data given back a second
\* time, which the base allocator need not survive.
ShrinkAgain ==
  /\ call.op = "shrink"
  /\ opa' = shrinkChunks(opa)
  /\ call' = [op |-> "shrink", ptr |-> <<0, 0>>, size |-> 0, ok |-> TRUE]
  /\ ub' = (ub \/ releasedChunks(opa) # {})
  /\ UNCHANGED <<chunkSize, live, pool, last, firstRef, docVars>>

NextAgain ==
  \/ \E data \in ChunkAddrs : AllocateChunk(data)
  \/ \E b \in live : DeallocateChunk(b)
  \/ ShrinkChunks
  \/ ShrinkAgain

SpecAgain == InitChunks /\ [][NextAgain]_vars

\* C21: a shrink that follows a shrink gives nothing back to the base
\* allocator and leaves the chunks the allocator holds as they were
C21_ShrinkIdempotent ==
  [][(call.op = "shrink" /\ call'.op = "shrink")
       => /\ shrinkFreed(chunkSize, opa) = 0
          /\ SubSeq(opa'.mChunks, 1, opa'.mChunksCount) = SubSeq(opa.mChunks, 1, opa.mChunksCount)
          /\ opa'.mChunksCapacity = opa.mChunksCapacity]_<<allocVars, ub>>

(***************************************************************************)
(* Document::clear and Document::shrink                                    *)
(***************************************************************************)
\* PoolAllocator::clear: every chunk is reset and kept, every fallback
\* record goes back to the base allocator
allocatorClear(CS, A) ==
  [A EXCEPT !.mChunks = [i \in 1..Len(A.mChunks) |->
                           IF i <= A.mChunksCount
                           THEN [A.mChunks[i] EXCEPT !.firstAvail = 0, !.firstDead = CS,
                                                     !.totalDead = 0, !.cells = <<>>]
                           ELSE A.mChunks[i]],
            !.mTotalDead = 0,
            !.mFallbacks = <<>>]

\* m without the blocks whose addresses are in S
RECURSIVE unmapAll(_, _)
unmapAll(m, S) == IF S = {} THEN m ELSE unmapAll(Unmap(m, Least(S)), S \ {Least(S)})

forceNull(D, v) == setType(D, v, NUL)

cleanedObjects(D) ==
  [D EXCEPT !.A = allocatorClear(D.CS, D.A),
            !.m = unmapAll(D.m, {D.A.mFallbacks[i].data : i \in 1..Len(D.A.mFallbacks)})]

clearObjects(D) == cleanedObjects(forceNull(D, Root))

clearStrings(D) ==
  IF D.ub THEN D ELSE IF AnyWild(D.P) THEN Fault(D) ELSE [D EXCEPT !.P = clear(D.P)]

documentClear(D) == clearStrings(clearObjects(D))

\* mOPA.shrink(): a chunk the compaction lost, or kept after its release,
\* leaves the allocator with records of memory it does not hold
shrunkObjects(D) ==
  IF SubSeq(shrinkChunks(D.A).mChunks, 1, shrinkChunks(D.A).mChunksCount) # keptChunks(D.A)
  THEN Fault(D)
  ELSE [D EXCEPT !.A = shrinkChunks(D.A), !.m = unmapAll(D.m, releasedChunks(D.A))]

shrunkStrings(D, rehashStringPool) ==
  IF D.ub THEN D
  ELSE IF AnyWild(D.P) THEN Fault(D)
  ELSE [D EXCEPT !.P = shrink(D.P, rehashStringPool)]

documentShrink(D, rehashStringPool) == shrunkStrings(shrunkObjects(D), rehashStringPool)

\* the bytes the object allocator holds from the base allocator: the chunk
\* vector, the chunks, the fallback records
heldBytes(CS, A) ==
  A.mChunksCapacity * SizeofChunk + A.mChunksCount * CS
  + Len(A.mFallbacks) * (SizeofFallback - 1) + fallbacksAllocated(A, 1)

\* HeapAllocator::getAllocated of the base allocator the two pools share
getAllocated(CS, A, P) == heldBytes(CS, A) + P.used

DocumentClear ==
  /\ ~ub
  /\ Done(documentClear(Start), DocCall("clear", <<>>))

DocumentShrink(rehashStringPool) ==
  /\ ~ub
  /\ pool.mItemCount <= MaxShrinkItemCount \/ ~rehashStringPool
  /\ Done(documentShrink(Start, rehashStringPool), DocCall("shrink", <<>>))

\* the strings of the document: both go to the pool
FinalStrings == {Str15, StrLong}

NextFinalize ==
  \/ ToArray(<<>>)
  \/ ToNull(<<>>)
  \/ SubscriptIndex(<<>>, FreshAddr(opa))
  \/ \E i \in 0..(MaxSize - 1), str \in FinalStrings : AssignString(<<i>>, str, TRUE)
  \/ DocumentClear
  \/ \E rehashStringPool \in BOOLEAN : DocumentShrink(rehashStringPool)

SpecFinalize == InitDoc /\ [][NextFinalize]_vars

\* C22: after clear() then shrink() the base allocator reports no allocated
\* byte, whatever the document held
C22_ClearShrinkReleasesAll ==
  [][(dlast.op = "clear" /\ dlast'.op = "shrink")
       => getAllocated(chunkSize, opa', pool') = 0]_vars

(***************************************************************************)
(* The order of the chunk vector                                           *)
(***************************************************************************)
\* the chunk records of A are at strictly increasing data addresses
SortedChunks(A) ==
  \A i \in 1..(A.mChunksCount - 1) : A.mChunks[i].data < A.mChunks[i + 1].data

\* findChunk reports the chunk whose memory holds ptr
Located(A, ptr) ==
  /\ findChunk(A, ptr).isChunk
  /\ A.mChunks[findChunk(A, ptr).ptrIdx + 1].data = ptr[1]

\* C23: after any sequence of allocate, deallocate and shrink the chunk
\* vector is strictly sorted by data address and findChunk locates the chunk
\* of every live region
C23_ChunksSortedAndFound ==
  /\ SortedChunks(opa)
  /\ \A b \in live : Located(opa, b.ptr)

(***************************************************************************)
(* The alternative scheme: compact pointers                                *)
(***************************************************************************)
\* what a compact pointer resolves to: the address in a chunk, or the
\* fallback record reached from the head of the list; Wild when the walk
\* leaves the list or the chunk index is past the chunks
toPtr(A, sp) ==
  IF sp[1] = LFJ_MAX_UINT16 THEN <<"null", 0, 0>>
  ELSE IF sp[1] < A.mChunksCount THEN <<"chunk", A.mChunks[sp[1] + 1].data, sp[2]>>
  ELSE IF sp[1] = FallbackChunk /\ A.mFallbackCount - sp[2] \in 1..Len(A.mFallbacks)
  THEN <<"fallback", A.mFallbacks[A.mFallbackCount - sp[2]].size, 0>>
  ELSE <<"wild", 0, 0>>

\* request sizes: in a chunk of 32 bytes, and beyond it
AltSizes == {5, 24, 40, 48}

InitAlt ==
  /\ opa = PoolAllocator
  /\ chunkSize = ChunkSize32
  /\ live = {}
  /\ call = NoAllocCall
  /\ pool = StringPool(ChunkSize32, 0)
  /\ last = NoCall
  /\ firstRef = [s \in Strings |-> NullPtr]
  /\ ub = FALSE
  /\ IdleDoc

\* the fallback records are told apart by their sizes
AllocateAlt(size) ==
  /\ Cardinality(live) < MaxAltLive
  /\ opa.mFallbackCount < MaxFallbackCount
  /\ allocateAlt(chunkSize, opa, size).A.mChunksCount <= MaxAltChunks
  /\ \A b \in live : b.size # size \/ chunkable(chunkSize, alignSize(size))
  /\ opa' = allocateAlt(chunkSize, opa, size).A
  /\ live' = live \cup {[ptr |-> allocateAlt(chunkSize, opa, size).ptr, size |-> size]}
  /\ call' = [op |-> "allocateAlt", ptr |-> allocateAlt(chunkSize, opa, size).ptr,
              size |-> size, ok |-> TRUE]
  /\ UNCHANGED <<chunkSize, poolVars, docVars>>

DeallocateAlt(b) ==
  /\ opa' = deallocateAlt(chunkSize, opa, b.ptr, b.size).A
  /\ live' = live \ {b}
  /\ call' = [op |-> "deallocateAlt", ptr |-> b.ptr, size |-> b.size, ok |-> TRUE]
  /\ UNCHANGED <<chunkSize, poolVars, docVars>>

ShrinkAlt ==
  /\ opa' = shrinkAlt(chunkSize, opa).A
  /\ call' = [op |-> "shrinkAlt", ptr |-> <<0, 0>>, size |-> 0, ok |-> TRUE]
  /\ UNCHANGED <<chunkSize, live, poolVars, docVars>>

NextAlt ==
  \/ \E size \in AltSizes : AllocateAlt(size)
  \/ \E b \in live : DeallocateAlt(b)
  \/ ShrinkAlt

SpecAlt == InitAlt /\ [][NextAlt]_vars

\* the region toPtr reaches is the one of size bytes handed out as sp
Resolves(CS, A, sp, size) ==
  IF chunkable(CS, alignSize(size))
  THEN /\ toPtr(A, sp)[1] = "chunk"
       /\ sp[2] + alignSize(size) <= A.mChunks[sp[1] + 1].firstAvail
       /\ \A pos \in DOMAIN A.mChunks[sp[1] + 1].cells :
            \/ pos + A.mChunks[sp[1] + 1].cells[pos].size <= sp[2]
            \/ sp[2] + alignSize(size) <= pos
  ELSE toPtr(A, sp) = <<"fallback", size, 0>>

\* C24: a compact pointer resolves to its region from the allocateAlt that
\* returned it until it is itself deallocated, whatever calls on other
\* regions come between
C24_CompactPointerStable ==
  [][/\ \A b \in live' : Resolves(chunkSize, opa', b.ptr, b.size)
     /\ \A b \in live \cap live' : toPtr(opa', b.ptr) = toPtr(opa, b.ptr)]_allocVars

\* two fallback regions were live, the older entry was deallocated, and the
\* younger one is still resolved
C24_Witness ==
  /\ call.op = "deallocateAlt"
  /\ call.ptr[1] = FallbackChunk
  /\ \E b \in live : b.ptr[1] = FallbackChunk /\ b.ptr[2] > call.ptr[2]
  /\ \E b \in live : b.ptr[1] # FallbackChunk

(***************************************************************************)
(* Specialized arrays in the editor: IArray and DArray                     *)
(***************************************************************************)
toIArray(D, v) == setContainer(refDeallocate(D, v), v, IARRAY)

iarrayReserve(D, v, newCapacity, data) == containerReserve(IArrayK, D, v, newCapacity, data)

darrayReserve(D, v, newCapacity, data) == containerReserve(DArrayK, D, v, newCapacity, data)

iarrayShrink(D, v, data) == containerShrink(IArrayK, D, v, data)

darrayShrink(D, v, data) == containerShrink(DArrayK, D, v, data)

iarrayIncSize(D, v, data) == sizeStep(grownIfFull(IArrayK, D, v, data), v, 1)

iarrayPushBack(D, v, i64, data) ==
  setElement(IArrayK, iarrayIncSize(D, v, data), v, jsize(D.m, v), numCells("i64", i64))

iarrayPopBack(D, v) == sizeStep(D, v, -1)

\* dValues[i] = (double)iValues[i] for i from 0 up
RECURSIVE widenInto(_, _, _, _, _)
widenInto(D, dValues, iValues, i, size) ==
  IF D.ub \/ i >= size THEN D
  ELSE IF iValues[1] # "opa" \/ rdPtr(D.m, raw(shift(iValues, i * SizeofInt64)))[1] # "i64"
  THEN Fault(D)
  ELSE widenInto(storeAt(D, shift(dValues, i * SizeofDouble),
                         numCells("f64",
                                  widened(<<rdPtr(D.m, raw(shift(iValues, i * SizeofInt64)))[2],
                                            rdPtr(D.m, raw(shift(iValues, i * SizeofInt64)))[3]>>))),
                 dValues, iValues, i + 1, size)

\* a new capacity that adds the extra slots to the old capacity
sumCapacity(size, capacity, reserveForExtra) == capacity + reserveForExtra

\* newCapacity of the converters
convertedCapacity(size, capacity, reserveForExtra) ==
  IF size + reserveForExtra < capacity THEN capacity ELSE size + reserveForExtra

\* the branch newCapacity < LFJ_MAX_UINT16, re the outcome of the realloc
convertSmall(re, v, iValues, size, capacity, newCapacity, data) ==
  IF re.ub THEN re
  ELSE IF re.ok
  THEN setCapa(setPtr(setType(widenInto(re, iValues, iValues, 0, size), v, DARRAY),
                      v, iValues),
               v, newCapacity)
  ELSE LET al == docAllocate(re, newCapacity * SizeofDouble, data)
       IN  setCapa(setPtr(setType(docDeallocate(widenInto(al, al.ptr, iValues, 0, size),
                                                iValues, capacity * SizeofInt64),
                                  v, DARRAY),
                          v, al.ptr),
                   v, newCapacity)

\* the branch of the Big descriptor al.ptr
convertBig(al, v, iValues, oldBig, size, capacity, newCapacity) ==
  setCapa(setPtr(setType(docDeallocate(widenInto(store(al, raw(al.ptr), bytes32(newCapacity)),
                                                 shift(al.ptr, DArrayK.data), iValues, 0, size),
                                       IF capacity < LFJ_MAX_UINT16 THEN iValues ELSE oldBig,
                                       IF capacity < LFJ_MAX_UINT16
                                       THEN capacity * SizeofInt64
                                       ELSE SizeofJBigIArray + (capacity - 1) * SizeofInt64),
                         v, DARRAY),
                 v, al.ptr),
          v, LFJ_MAX_UINT16)

convertInto(D, v, size, capacity, newCapacity, data) ==
  IF newCapacity = 0 THEN setType(D, v, DARRAY)
  ELSE IF newCapacity = capacity
  THEN setType(widenInto(D, values(IArrayK, D.m, v), values(IArrayK, D.m, v), 0, size),
               v, DARRAY)
  ELSE IF newCapacity < LFJ_MAX_UINT16
  THEN convertSmall(docRealloc(D, values(IArrayK, D.m, v), capacity * SizeofInt64,
                               newCapacity * SizeofInt64),
                    v, values(IArrayK, D.m, v), size, capacity, newCapacity, data)
  ELSE convertBig(docAllocate(D, SizeofJBigDArray + (newCapacity - 1) * SizeofDouble, data),
                  v, values(IArrayK, D.m, v), jptr(D.m, v), size, capacity, newCapacity)

convertIArrayToDArray(D, v, reserveForExtra, data) ==
  IF D.ub THEN D
  ELSE IF jsize(D.m, v) = Unread \/ capacityOf(D.m, v) = Unread THEN Fault(D)
  ELSE convertInto(D, v, jsize(D.m, v), capacityOf(D.m, v),
                   convertedCapacity(jsize(D.m, v), capacityOf(D.m, v), reserveForExtra), data)

\* an editor call with a number for argument
ArgCall(op, path, arg) == [op |-> op, path |-> path, str |-> <<>>, arg |-> arg]

ToIArray(path) ==
  /\ ~ub /\ cellOf(path) # NoValue
  /\ Done(toIArray(Start, cellOf(path)), DocCall("toIArray", path))

\* the sizes a push is followed from and a pop is followed to: the small
\* ones, and the one below the capacity sentinel
PushSizes == 0..(MaxElements - 1) \cup {LFJ_MAX_UINT16 - 1}

IArrayPushBack(path, i64, data) ==
  /\ Editable(path, {IARRAY})
  /\ jsize(mem, cellOf(path)) \in PushSizes
  /\ Done(iarrayPushBack(Start, cellOf(path), i64, data), DocCall("iarrayPushBack", path))

IArrayPopBack(path) ==
  /\ Editable(path, {IARRAY})
  /\ jsize(mem, cellOf(path)) - 1 \in PushSizes
  /\ Done(iarrayPopBack(Start, cellOf(path)), DocCall("iarrayPopBack", path))

IArrayShrink(path, data) ==
  /\ Editable(path, {IARRAY})
  /\ Done(iarrayShrink(Start, cellOf(path), data), DocCall("iarrayShrink", path))

ConvertIArrayToDArray(path, reserveForExtra, data) ==
  /\ Editable(path, {IARRAY})
  /\ Done(convertIArrayToDArray(Start, cellOf(path), reserveForExtra, data),
          ArgCall("convertIArrayToDArray", path, reserveForExtra))

\* the integers pushed, as <<high, low>>
EditInts == {<<0, 1>>, <<1, 0>>}

\* the slots a conversion is asked to add
Extras == 0..2

NextConvert ==
  \/ ToIArray(<<>>)
  \/ ToNull(<<>>)
  \/ \E i64 \in EditInts : IArrayPushBack(<<>>, i64, FreshAddr(opa))
  \/ IArrayPopBack(<<>>)
  \/ IArrayShrink(<<>>, FreshAddr(opa))
  \/ \E reserveForExtra \in Extras : ConvertIArrayToDArray(<<>>, reserveForExtra, FreshAddr(opa))

SpecConvert == InitDoc /\ [][NextConvert]_vars

\* element i of the specialized array at v, as rdPtr reads it
numberAt(K, m, v, i) ==
  IF elementPtr(K, m, v, i)[1] = "opa" THEN rdPtr(m, raw(elementPtr(K, m, v, i))) ELSE BadPtr

\* the step is a convertIArrayToDArray of the root that returned
Converts == dlast'.op = "convertIArrayToDArray" /\ jtype(mem, Root) = IARRAY

\* size, type and elements after the conversion
ConvertedElements ==
  /\ jtype(mem', Root) = DARRAY
  /\ jsize(mem', Root) = jsize(mem, Root)
  /\ \A i \in 0..(jsize(mem, Root) - 1) :
       /\ numberAt(IArrayK, mem, Root, i)[1] = "i64"
       /\ numberAt(DArrayK, mem', Root, i) =
            <<"f64", 2 * numberAt(IArrayK, mem, Root, i)[2],
              2 * numberAt(IArrayK, mem, Root, i)[3]>>

\* C25 as stated: the conversion of an IArray gives a DArray of the same
\* size, its elements the integers widened, of capacity the old capacity
\* plus the extra slots
C25_CapacityPlusExtra ==
  [][Converts => /\ ConvertedElements
                 /\ capacityOf(mem', Root) = capacityOf(mem, Root) + dlast'.arg]_vars

\* C25: the conversion of an IArray gives a DArray of the same size, its
\* elements the integers widened, of capacity the larger of the old capacity
\* and size plus the extra slots
C25_CapacityAtLeastSizePlusExtra ==
  [][Converts => /\ ConvertedElements
                 /\ capacityOf(mem', Root) =
                      Max(capacityOf(mem, Root), jsize(mem, Root) + dlast'.arg)]_vars

\* an array of one element and capacity 3 was converted with one extra slot
C25_Witness ==
  /\ dlast.op = "convertIArrayToDArray"
  /\ dlast.arg = 1
  /\ jtype(mem, Root) = DARRAY
  /\ jsize(mem, Root) = 1
  /\ capacityOf(mem, Root) = 3

(***************************************************************************)
(* Big descriptors: the capacity sentinel                                  *)
(***************************************************************************)
\* a new Document<32>, as a step record
NewDocument ==
  [CS |-> ChunkSize32, A |-> PoolAllocator, m |-> Put(<<>>, Root, <<Byte(NUL)>>),
   P |-> StringPool(ChunkSize32, 0), ub |-> FALSE, ok |-> FALSE, ptr |-> BadPtr,
   ref |-> NullPtr]

\* the document after toIArray, iarrayReserve(LFJ_MAX_UINT16 - 1) and
\* LFJ_MAX_UINT16 calls of iarrayPushBack: the calls but the last fill the
\* reserved buffer, the last one grows it.  Of the elements the first and
\* the last are followed.
FilledDocument ==
  iarrayPushBack(
    sizeStep(setElement(IArrayK,
                        iarrayReserve(toIArray(NewDocument, Root), Root, LFJ_MAX_UINT16 - 1, 1),
                        Root, 0, numCells("i64", <<0, 1>>)),
             Root, LFJ_MAX_UINT16 - 1),
    Root, <<0, 1>>, 2)

InitBig ==
  /\ chunkSize = ChunkSize32
  /\ \/ opa = NewDocument.A /\ mem = NewDocument.m
     \/ opa = FilledDocument.A /\ mem = FilledDocument.m
  /\ pool = StringPool(ChunkSize32, 0)
  /\ dlast = NoDocCall
  /\ hdl = <<>>
  /\ ub = FALSE
  /\ live = {}
  /\ call = NoAllocCall
  /\ last = NoCall
  /\ firstRef = [s \in Strings |-> NullPtr]

IArrayReserve(path, newCapacity, data) ==
  /\ Editable(path, {IARRAY})
  /\ Done(iarrayReserve(Start, cellOf(path), newCapacity, data),
          ArgCall("iarrayReserve", path, newCapacity))

\* capacities asked for: just below the sentinel, and the sentinel
BigCapacities == {LFJ_MAX_UINT16 - 1, LFJ_MAX_UINT16}

NextBig ==
  \/ ToIArray(<<>>)
  \/ IArrayPushBack(<<>>, <<0, 1>>, FreshAddr(opa))
  \/ IArrayPopBack(<<>>)
  \/ IArrayShrink(<<>>, FreshAddr(opa))
  \/ \E newCapacity \in BigCapacities : IArrayReserve(<<>>, newCapacity, FreshAddr(opa))

SpecBig == InitBig /\ [][NextBig]_vars

\* the allocator holds a fallback region of that size at the pointer
HeldAt(A, ptr, size) ==
  /\ ptr[1] = "opa"
  /\ ptr[3] = 0
  /\ \E i \in 1..Len(A.mFallbacks) :
       A.mFallbacks[i].data = ptr[2] /\ A.mFallbacks[i].size = size

\* the cell's buffer is a JBig descriptor holding the real capacity
BigHeld(K, A, m, v) ==
  /\ bigCapacity(m, v) >= LFJ_MAX_UINT16
  /\ bigCapacity(m, v) >= jsize(m, v)
  /\ HeldAt(A, jptr(m, v), K.big + (bigCapacity(m, v) - 1) * K.elem)

\* the cell's buffer is the elements themselves, capacity of them
DirectHeld(K, CS, A, m, v) ==
  /\ jcapa(m, v) >= jsize(m, v)
  /\ (jcapa(m, v) > 0 /\ ~chunkable(CS, alignSize(jcapa(m, v) * K.elem)))
       => HeldAt(A, jptr(m, v), jcapa(m, v) * K.elem)

SentinelIffBig(K, CS, A, m, v) ==
  IF jcapa(m, v) = LFJ_MAX_UINT16 THEN BigHeld(K, A, m, v)
  ELSE jcapa(m, v) < LFJ_MAX_UINT16 /\ DirectHeld(K, CS, A, m, v)

\* C26: an IArray cell stores the capacity sentinel 65535 if and only if
\* its buffer is a Big descriptor that holds the real capacity, which is at
\* least 65535 and at least the size; otherwise the cell's capacity is below
\* 65535 and is that of a direct buffer.  A push or a reserve that brings the
\* capacity to 65535 or more ends with the sentinel and a Big descriptor, a
\* shrink at a size of 65535 or more ends with a Big descriptor whose
\* capacity is the size, and a shrink at a smaller size ends with a direct
\* buffer whose capacity is the size.
C26_SentinelIffBigDescriptor ==
  [][/\ ~ub'
     /\ jtype(mem', Root) = IARRAY => SentinelIffBig(IArrayK, chunkSize, opa', mem', Root)
     /\ (dlast'.op = "iarrayReserve" /\ dlast'.arg >= LFJ_MAX_UINT16)
          => /\ jcapa(mem', Root) = LFJ_MAX_UINT16
             /\ bigCapacity(mem', Root) = Max(dlast'.arg, capacityOf(mem, Root))
     /\ (dlast'.op = "iarrayPushBack" /\ jsize(mem, Root) = capacityOf(mem, Root)
           /\ grownCapacity(capacityOf(mem, Root)) >= LFJ_MAX_UINT16)
          => /\ jcapa(mem', Root) = LFJ_MAX_UINT16
             /\ bigCapacity(mem', Root) = grownCapacity(capacityOf(mem, Root))
     /\ (dlast'.op = "iarrayShrink" /\ jsize(mem, Root) >= LFJ_MAX_UINT16)
          => /\ jcapa(mem', Root) = LFJ_MAX_UINT16
             /\ bigCapacity(mem', Root) = jsize(mem, Root)
             /\ jsize(mem', Root) = jsize(mem, Root)
     /\ (dlast'.op = "iarrayShrink" /\ jsize(mem, Root) < LFJ_MAX_UINT16)
          => /\ jcapa(mem', Root) = jsize(mem, Root)
             /\ jsize(mem', Root) = jsize(mem, Root)
             /\ DirectHeld(IArrayK, chunkSize, opa', mem', Root)]_vars

\* a shrink has taken the Big descriptor of an array of 65534 elements to a
\* direct buffer of that capacity
C26_Witness ==
  /\ dlast.op = "iarrayShrink"
  /\ jtype(mem, Root) = IARRAY
  /\ jsize(mem, Root) = LFJ_MAX_UINT16 - 1
  /\ jcapa(mem, Root) = LFJ_MAX_UINT16 - 1
  /\ HeldAt(opa, jptr(mem, Root), (LFJ_MAX_UINT16 - 1) * SizeofInt64)
  /\ numberAt(IArrayK, mem, Root, 0) = <<"i64", 0, 1>>

(***************************************************************************)
(* Erase                                                                   *)
(***************************************************************************)
\* arrayOverwrite and its siblings: memmove(it, it + 1, (end - 1 - it) *
\* sizeof(T)), then the size decremented
containerOverwrite(K, D, v, i) ==
  IF D.ub THEN D
  ELSE IF jsize(D.m, v) = Unread \/ jcapa(D.m, v) = Unread THEN Fault(D)
  ELSE sizeStep(docMemcpy(D, shift(values(K, D.m, v), i * K.elem),
                          shift(values(K, D.m, v), (i + 1) * K.elem),
                          (jsize(D.m, v) - 1 - i) * K.elem),
                v, -1)

arrayOverwrite(D, v, i) == containerOverwrite(ArrayK, D, v, i)

barrayOverwrite(D, v, i) == containerOverwrite(BArrayK, D, v, i)

iarrayOverwrite(D, v, i) == containerOverwrite(IArrayK, D, v, i)

darrayOverwrite(D, v, i) == containerOverwrite(DArrayK, D, v, i)

objectOverwrite(D, v, i) == containerOverwrite(ObjectK, D, v, i)

\* the erase that overwrites without giving the element's structure back
arrayEraseKept(D, v, i) == arrayOverwrite(D, v, i)

\* RefValue::arrayErase(it), it the iterator at index i
arrayErase(D, v, i) ==
  IF elementPtr(ArrayK, D.m, v, i)[1] # "opa" THEN Fault(D)
  ELSE arrayOverwrite(deallocateValue(D, raw(elementPtr(ArrayK, D.m, v, i)), MaxDepth), v, i)

barrayErase(D, v, i) == barrayOverwrite(D, v, i)

iarrayErase(D, v, i) == iarrayOverwrite(D, v, i)

darrayErase(D, v, i) == darrayOverwrite(D, v, i)

objectErase(D, v, i) ==
  IF elementPtr(ObjectK, D.m, v, i)[1] # "opa" THEN Fault(D)
  ELSE objectOverwrite(deallocateValue(D, raw(elementPtr(ObjectK, D.m, v, i)), MaxDepth), v, i)

\* the erase of each container type, by its tag
erase(D, v, i) ==
  IF jtype(D.m, v) = ARRAY THEN arrayErase(D, v, i)
  ELSE IF jtype(D.m, v) = BARRAY THEN barrayErase(D, v, i)
  ELSE IF jtype(D.m, v) = IARRAY THEN iarrayErase(D, v, i)
  ELSE IF jtype(D.m, v) = DARRAY THEN darrayErase(D, v, i)
  ELSE objectErase(D, v, i)

EraseOp ==
  (ARRAY :> "arrayErase") @@ (BARRAY :> "barrayErase") @@ (IARRAY :> "iarrayErase")
  @@ (DARRAY :> "darrayErase") @@ (OBJECT :> "objectErase")

Erase(path, type, i) ==
  /\ Editable(path, {type})
  /\ i < jsize(mem, cellOf(path))
  /\ Done(erase(Start, cellOf(path), i), ArgCall(EraseOp[type], path, i))

ArrayErase(path, i) == Erase(path, ARRAY, i)

BArrayErase(path, i) == Erase(path, BARRAY, i)

IArrayErase(path, i) == Erase(path, IARRAY, i)

DArrayErase(path, i) == Erase(path, DARRAY, i)

ObjectErase(path, i) == Erase(path, OBJECT, i)

\* the elements the editor nests an array under
NestPaths == {<<>>, <<0>>}

\* a specialised array is made of a new document's root
ToBArrayFresh == Fresh /\ ToBArray(<<>>)

ToIArrayFresh == Fresh /\ ToIArray(<<>>)

NextErase ==
  \/ \E path \in NestPaths : SubscriptIndex(path, FreshAddr(opa))
  \/ AssignString(<<1>>, StrLong, TRUE)
  \/ \E key \in KeyStrings : SubscriptKey(<<>>, key, FALSE, FreshAddr(opa))
  \/ ToBArrayFresh
  \/ \E b \in BOOLEAN : BArrayPushBack(<<>>, b, FreshAddr(opa))
  \/ ToIArrayFresh
  \/ \E i64 \in EditInts : IArrayPushBack(<<>>, i64, FreshAddr(opa))
  \/ ConvertIArrayToDArray(<<>>, 0, FreshAddr(opa))
  \/ \E i \in 0..(MaxElements - 1) :
       \/ ArrayErase(<<>>, i)
       \/ BArrayErase(<<>>, i)
       \/ IArrayErase(<<>>, i)
       \/ DArrayErase(<<>>, i)
       \/ ObjectErase(<<>>, i)

SpecErase == InitKeys /\ [][NextErase]_vars

\* the n cells from address a on, those never written marked
cellsAt(m, a, n) ==
  [k \in 0..(n - 1) |-> IF at(a, k) \in DOMAIN m THEN m[at(a, k)] ELSE <<"none", 0, 0, 0>>]

ContainerK ==
  (ARRAY :> ArrayK) @@ (BARRAY :> BArrayK) @@ (IARRAY :> IArrayK) @@ (DARRAY :> DArrayK)
  @@ (OBJECT :> ObjectK)

\* the value a cell holds: a container's tag and elements in order (a
\* member with its key), any other cell's bytes
RECURSIVE valueOf(_, _, _)
RECURSIVE elementOf(_, _, _, _, _)
elementOf(K, m, v, i, fuel) ==
  IF values(K, m, v)[1] # "opa" THEN <<"wild">>
  ELSE IF K.type = ARRAY THEN valueOf(m, raw(elementPtr(K, m, v, i)), fuel - 1)
  ELSE IF K.type = OBJECT
  THEN <<cellsAt(m, raw(memberAt(m, v, i)), SizeofCharPtr),
         valueOf(m, raw(elementPtr(K, m, v, i)), fuel - 1)>>
  ELSE cellsAt(m, raw(elementPtr(K, m, v, i)), K.elem)

valueOf(m, v, fuel) ==
  IF v = NoValue \/ fuel = 0 THEN <<"none">>
  ELSE IF jtype(m, v) \notin DOMAIN ContainerK THEN <<"cell", cellsAt(m, v, SizeofJValue)>>
  ELSE IF jsize(m, v) = Unread THEN <<"unread">>
  ELSE <<jtype(m, v),
         [i \in 1..jsize(m, v) |-> elementOf(ContainerK[jtype(m, v)], m, v, i - 1, fuel)]>>

\* the bytes the allocator counts for a region of that size
regionBytes(CS, size) ==
  IF size = 0 THEN 0 ELSE IF chunkable(CS, alignSize(size)) THEN alignSize(size) ELSE size

RECURSIVE usedIn(_, _)
usedIn(A, i) ==
  IF i > A.mChunksCount THEN 0
  ELSE A.mChunks[i].firstAvail - A.mChunks[i].totalDead + usedIn(A, i + 1)

\* the bytes of the object allocator's regions not given back
usedBytes(A) == usedIn(A, 1) + fallbacksAllocated(A, 1)

\* the bytes of the buffers a value owns, its elements' included
RECURSIVE ownedBytes(_, _, _, _)
RECURSIVE ownedFrom(_, _, _, _, _, _)
ownedFrom(K, CS, m, v, i, fuel) ==
  IF i >= jsize(m, v) \/ elementPtr(K, m, v, i)[1] # "opa" THEN 0
  ELSE ownedBytes(CS, m, raw(elementPtr(K, m, v, i)), fuel - 1)
       + ownedFrom(K, CS, m, v, i + 1, fuel)

ownedBytes(CS, m, v, fuel) ==
  IF v = NoValue \/ fuel = 0 \/ jtype(m, v) \notin DOMAIN ContainerK THEN 0
  ELSE regionBytes(CS, jcapa(m, v) * ContainerK[jtype(m, v)].elem)
       + (IF jtype(m, v) \in {ARRAY, OBJECT}
          THEN ownedFrom(ContainerK[jtype(m, v)], CS, m, v, 0, fuel)
          ELSE 0)

removeAt(s, i) == [j \in 1..(Len(s) - 1) |-> IF j < i THEN s[j] ELSE s[j + 1]]

\* the step is an erase on the root that returned
Erases ==
  /\ dlast'.op \in {EraseOp[t] : t \in DOMAIN EraseOp}
  /\ mem' # mem

\* C27: an erase at position i of a container of size n leaves size n - 1,
\* every element formerly at a position below i as it was, and every element
\* formerly at a position j above i at position j - 1; the buffers the
\* erased element owned are given back to the allocator, and no others.
C27_EraseShiftsTail ==
  [][Erases =>
       /\ jsize(mem', Root) = jsize(mem, Root) - 1
       /\ valueOf(mem', Root, MaxDepth)
            = <<jtype(mem, Root), removeAt(valueOf(mem, Root, MaxDepth)[2], dlast'.arg + 1)>>
       /\ usedBytes(opa') = usedBytes(opa) - ownedBytes(chunkSize, mem, child(mem, Root, dlast'.arg), MaxDepth)]_vars

\* the first of two elements of an array was erased: the long string after
\* it is now the first, and only the array's own buffer is in use
C27_Witness ==
  /\ dlast.op = "arrayErase"
  /\ dlast.arg = 0
  /\ jsize(mem, Root) = 1
  /\ valueOf(mem, Root, MaxDepth)[2][1][1] = "cell"
  /\ jtype(mem, child(mem, Root, 0)) = LSTRING
  /\ usedBytes(opa) = regionBytes(chunkSize, jcapa(mem, Root) * SizeofJValue)

(***************************************************************************)
(* Shrink to fit                                                           *)
(***************************************************************************)
DArrayShrink(path, data) ==
  /\ Editable(path, {DARRAY})
  /\ data \notin InUse(opa)
  /\ Done(darrayShrink(Start, cellOf(path), data), DocCall("darrayShrink", path))

ObjectShrink(path, data) ==
  /\ Editable(path, {OBJECT})
  /\ data \notin InUse(opa)
  /\ Done(objectShrink(Start, cellOf(path), data), DocCall("objectShrink", path))

\* a new Document<32>, or one whose root is an IArray of LFJ_MAX_UINT16
\* elements
InitFit ==
  /\ chunkSize = ChunkSize32
  /\ \/ opa = NewDocument.A /\ mem = NewDocument.m
     \/ opa = FilledDocument.A /\ mem = FilledDocument.m
  /\ pool = StringPool(ChunkSize32, 0)
  /\ dlast = NoDocCall
  /\ hdl = NewHandler(TRUE)
  /\ ub = FALSE
  /\ live = {}
  /\ call = NoAllocCall
  /\ last = NoCall
  /\ firstRef = [s \in Strings |-> NullPtr]


NextFit ==
  \/ SubscriptIndex(<<>>, FreshAddr(opa))
  \/ AssignString(<<1>>, StrLong, TRUE)
  \/ ArrayPopBack(<<>>)
  \/ ArrayReserve(<<>>, MaxElements, FreshAddr(opa))
  \/ ArrayShrink(<<>>, FreshAddr(opa))
  \/ \E key \in KeyStrings : SubscriptKey(<<>>, key, FALSE, FreshAddr(opa))
  \/ ObjectErase(<<>>, 0)
  \/ ObjectShrink(<<>>, FreshAddr(opa))
  \/ ToBArrayFresh
  \/ \E b \in BOOLEAN : BArrayPushBack(<<>>, b, FreshAddr(opa))
  \/ BArrayPopBack(<<>>)
  \/ BArrayShrink(<<>>, FreshAddr(opa))
  \/ ToIArrayFresh
  \/ IArrayPushBack(<<>>, <<0, 1>>, FreshAddr(opa))
  \/ IArrayPopBack(<<>>)
  \/ IArrayReserve(<<>>, LFJ_MAX_UINT16 - 1, FreshAddr(opa))
  \/ IArrayShrink(<<>>, FreshAddr(opa))
  \/ ConvertIArrayToDArray(<<>>, 1, FreshAddr(opa))
  \/ DArrayShrink(<<>>, FreshAddr(opa))

SpecFit == InitFit /\ [][NextFit]_vars

ShrinkOp ==
  (ARRAY :> "arrayShrink") @@ (BARRAY :> "barrayShrink") @@ (IARRAY :> "iarrayShrink")
  @@ (DARRAY :> "darrayShrink") @@ (OBJECT :> "objectShrink")

\* the bytes written in the first size elements of the cell's buffer, by
\* their offset from the first element
elementBytes(K, m, v) ==
  IF values(K, m, v)[1] # "opa" THEN <<>>
  ELSE LET first == raw(values(K, m, v))
           held == {x \in DOMAIN m : /\ x[1] = first[1]
                                     /\ x[2] >= first[2]
                                     /\ x[2] < first[2] + jsize(m, v) * K.elem}
       IN  [k \in {x[2] - first[2] : x \in held} |-> m[at(first, k)]]

\* the step is a shrink of the root that returned
Shrinks ==
  /\ jtype(mem, Root) \in DOMAIN ShrinkOp
  /\ dlast'.op = ShrinkOp[jtype(mem, Root)]
  /\ ~ub'

\* C28: after arrayShrink, barrayShrink, iarrayShrink, darrayShrink or
\* objectShrink the container's capacity is its size, the size is what it
\* was, and the elements and their order are what they were: the bytes of
\* the first size elements, and the values nested under them.
C28_ShrinkExactFit ==
  [][Shrinks =>
       /\ jsize(mem', Root) = jsize(mem, Root)
       /\ capacityOf(mem', Root) = jsize(mem, Root)
       /\ jtype(mem', Root) = jtype(mem, Root)
       /\ elementBytes(ContainerK[jtype(mem, Root)], mem', Root)
            = elementBytes(ContainerK[jtype(mem, Root)], mem, Root)
       /\ jsize(mem, Root) <= MaxElements
            => valueOf(mem', Root, MaxDepth) = valueOf(mem, Root, MaxDepth)]_vars

\* an array of two elements, the second a long string, was shrunk: its
\* capacity is two and its buffer is in a chunk
C28_Witness ==
  /\ dlast.op = "arrayShrink"
  /\ jtype(mem, Root) = ARRAY
  /\ jsize(mem, Root) = 2
  /\ jcapa(mem, Root) = 2
  /\ jtype(mem, child(mem, Root, 1)) = LSTRING
  /\ opa.mFallbacks = <<>>

(***************************************************************************)
(* Keyed access                                                            *)
(***************************************************************************)

\* the characters of the member's key
keyString(P, m, member) ==
  IF jkey(m, member)[1] = "spa" /\ raw(jkey(m, member)) \in DOMAIN P.strs
  THEN P.strs[raw(jkey(m, member))].str
  ELSE <<0 - 1>>

\* the indexes of the members of the object whose key is that string
membersOf(P, m, v, key) ==
  {i \in 0..(jsize(m, v) - 1) : keyString(P, m, memberAt(m, v, i)) = key}

\* operator[](key) with a key of the object, or on an object with room
Upsert(key, own, data) ==
  /\ jtype(mem, Root) = OBJECT
       => jsize(mem, Root) < MaxSize \/ membersOf(pool, mem, Root, key) # {}
  /\ Subscript(<<>>, key, own, data)

\* an object modified through operator[](key) only: its members' values are
\* assigned, and the pool releases the strings that are not keys
NextUpsert ==
  \/ \E key \in KeyStrings, own \in BOOLEAN : Upsert(key, own, FreshAddr(opa))
  \/ \E str \in ValueStrings : AssignValue(<<1>>, str, TRUE)
  \/ ReleaseValuesParsed

SpecUpsert == InitKeys /\ [][NextUpsert]_vars

\* the step is an operator[](key) on the root that returned
Subscripts == dlast'.op = "subscriptKey" /\ (mem' # mem \/ dlast' # dlast \/ pool' # pool)

objectSize(m, v) == IF jtype(m, v) = OBJECT THEN jsize(m, v) ELSE 0

\* C29: operator[](key) on an object that has a member with that key
\* returns the value of that member and leaves the members as they were; on
\* an object with no such member (or a Null cell) it appends one member
\* with that key and a Null value, returns its value, and leaves the members
\* before it as they were; an object modified only through operator[](key)
\* never holds two members with equal keys.
C29_SubscriptUpserts ==
  [][/\ Subscripts =>
          IF membersOf(pool, mem, Root, dlast'.str) # {} /\ jtype(mem, Root) = OBJECT
          THEN /\ jsize(mem', Root) = jsize(mem, Root)
               /\ valueOf(mem', Root, MaxDepth) = valueOf(mem, Root, MaxDepth)
               /\ \E i \in membersOf(pool, mem, Root, dlast'.str) :
                    dlast'.arg = raw(elementPtr(ObjectK, mem', Root, i))
          ELSE /\ jtype(mem', Root) = OBJECT
               /\ jsize(mem', Root) = objectSize(mem, Root) + 1
               /\ keyString(pool', mem', memberAt(mem', Root, objectSize(mem, Root)))
                    = dlast'.str
               /\ dlast'.arg = raw(elementPtr(ObjectK, mem', Root, objectSize(mem, Root)))
               /\ jtype(mem', dlast'.arg) = NUL
               /\ jtype(mem, Root) = OBJECT
                    => SubSeq(valueOf(mem', Root, MaxDepth)[2], 1, jsize(mem, Root))
                         = valueOf(mem, Root, MaxDepth)[2]
     /\ ~ub' => \A key \in KeyStrings : Cardinality(membersOf(pool', mem', Root, key)) <= 1]_vars

\* operator[] was called with the key of the second of two members, whose
\* value is a long string: it returned that value
C29_Witness ==
  /\ dlast.op = "subscriptKey"
  /\ jtype(mem, Root) = OBJECT
  /\ jsize(mem, Root) = 2
  /\ membersOf(pool, mem, Root, dlast.str) = {1}
  /\ dlast.arg = raw(elementPtr(ObjectK, mem, Root, 1))
  /\ jtype(mem, dlast.arg) = LSTRING

(***************************************************************************)
(* Members found by key                                                    *)
(***************************************************************************)
\* a lookup that takes the first member whatever the key
findAnyMember(P, m, v, key) ==
  IF jsize(m, v) = 0 \/ P.mItemCount = 0 THEN NoValue ELSE raw(memberAt(m, v, 0))

\* RefValue::objectFindMember(key): the member, or NoValue for nullptr
objectFindMember(P, m, v, key) ==
  IF jsize(m, v) = 0 \/ IsNull(get_(P, key)) THEN NoValue
  ELSE LET hits == {i \in 0..(jsize(m, v) - 1) :
                      jkey(m, memberAt(m, v, i)) = keyPtr(get_(P, key))}
       IN  IF hits = {} THEN NoValue ELSE raw(memberAt(m, v, Least(hits)))

\* the keys members are renamed to and looked up by
FindStrings == KeyStrings \cup {StrLong}

\* an object whose members are appended by operator[] and objectPushBack
\* and renamed by setKey
NextRename ==
  \/ \E key \in KeyStrings : SubscriptKey(<<>>, key, FALSE, FreshAddr(opa))
  \/ ObjectPushBack(<<>>, StrA, TRUE, TRUE, FreshAddr(opa))
  \/ \E i \in 0..(MaxSize - 1), key \in FindStrings : SetKey(<<>>, i, key)
  \/ AssignValue(<<0>>, StrLong, TRUE)
  \/ ReleaseValuesParsed

SpecRename == InitKeys /\ [][NextRename]_vars

\* objectFindMember(key) is the first member whose key has the characters
\* of key, and null if there is none
FindsByKey(P, m, v) ==
  \A key \in FindStrings :
    objectFindMember(P, m, v, key)
      = IF membersOf(P, m, v, key) = {} THEN NoValue
        ELSE raw(memberAt(m, v, Least(membersOf(P, m, v, key))))

\* the step is a setKey that gave the member another key: the index of the
\* member, its key before, and its key after
Renamed == dlast'.path[Len(dlast'.path)]

RenamedFrom == keyString(pool, mem, memberAt(mem, Root, Renamed))

Renames ==
  /\ dlast'.op = "setKey"
  /\ mem' # mem
  /\ RenamedFrom # dlast'.str

\* C30 as stated: after setKey renames a member from k1 to k2,
\* objectFindMember(k1) is null and objectFindMember(k2) is that member,
\* its value unchanged.
C30_RenamedMemberFound ==
  [][Renames =>
       /\ objectFindMember(pool', mem', Root, RenamedFrom) = NoValue
       /\ objectFindMember(pool', mem', Root, dlast'.str) = raw(memberAt(mem', Root, Renamed))
       /\ valueOf(mem', raw(elementPtr(ObjectK, mem', Root, Renamed)), MaxDepth)
            = valueOf(mem, raw(elementPtr(ObjectK, mem, Root, Renamed)), MaxDepth)]_vars

\* C30: objectFindMember(key) returns the first member of the object whose
\* key is the pool's entry for key, and null when the pool has no entry for
\* key or no member has it for its key.  After setKey renames a member from
\* k1 to k2, the member's value is unchanged, objectFindMember(k2) returns
\* that member if no member before it has the key k2, and
\* objectFindMember(k1) is null if no other member has the key k1.
C30_FindMemberByKey ==
  [][/\ (~ub' /\ jtype(mem', Root) = OBJECT) => FindsByKey(pool', mem', Root)
     /\ Renames =>
          /\ valueOf(mem', raw(elementPtr(ObjectK, mem', Root, Renamed)), MaxDepth)
               = valueOf(mem, raw(elementPtr(ObjectK, mem, Root, Renamed)), MaxDepth)
          /\ jsize(mem', Root) = jsize(mem, Root)
          /\ (\A j \in 0..(Renamed - 1) :
                keyString(pool, mem, memberAt(mem, Root, j)) # dlast'.str)
               => objectFindMember(pool', mem', Root, dlast'.str)
                    = raw(memberAt(mem', Root, Renamed))
          /\ membersOf(pool, mem, Root, RenamedFrom) = {Renamed}
               => objectFindMember(pool', mem', Root, RenamedFrom) = NoValue]_vars

\* the second member of an object was renamed to a key no member had: it is
\* found by that key, and its former key finds nothing
C30_Witness ==
  /\ dlast.op = "setKey"
  /\ dlast.path = <<1>>
  /\ jtype(mem, Root) = OBJECT
  /\ jsize(mem, Root) = 2
  /\ objectFindMember(pool, mem, Root, dlast.str) = raw(memberAt(mem, Root, 1))
  /\ \E key \in KeyStrings :
       /\ key # dlast.str
       /\ objectFindMember(pool, mem, Root, key) = NoValue
       /\ ~IsNull(get_(pool, key))

(***************************************************************************)
(* Checked accessors                                                       *)
(***************************************************************************)
OutOfRange == <<"out_of_range", 0, 0>>

\* a check that lets the index one past the end through
valueAtLax(K, m, v, index) ==
  IF index > jsize(m, v) THEN OutOfRange ELSE shift(values(K, m, v), index * K.elem)

\* arrayValueAt and its siblings: the exception thrown, or the element (the
\* member, of an object) the reference returned refers to
valueAt(K, m, v, index) ==
  IF index >= jsize(m, v) THEN OutOfRange ELSE shift(values(K, m, v), index * K.elem)

AtOp ==
  (ARRAY :> "arrayValueAt") @@ (BARRAY :> "barrayValueAt") @@ (IARRAY :> "iarrayValueAt")
  @@ (DARRAY :> "darrayValueAt") @@ (OBJECT :> "objectMemberAt")

CAtOp ==
  (ARRAY :> "arrayCValueAt") @@ (BARRAY :> "barrayCValueAt") @@ (IARRAY :> "iarrayCValueAt")
  @@ (DARRAY :> "darrayCValueAt") @@ (OBJECT :> "objectCMemberAt")

\* the accessor of the container's type, or its const variant, called on the
\* cell at path: what the call gave is kept in dlast
ValueAt(path, index, const) ==
  /\ Editable(path, DOMAIN ContainerK)
  /\ dlast' = [op |-> IF const THEN CAtOp[jtype(mem, cellOf(path))]
                      ELSE AtOp[jtype(mem, cellOf(path))],
               path |-> path, str |-> <<>>, arg |-> index,
               ret |-> valueAt(ContainerK[jtype(mem, cellOf(path))], mem, cellOf(path), index)]
  /\ UNCHANGED <<chunkSize, opa, mem, pool, hdl, ub, live, call, last, firstRef>>

\* indexes below, at and past the size of a container
AtIndexes == 0..(MaxElements + 1)

NextAt ==
  \/ SubscriptIndex(<<>>, FreshAddr(opa))
  \/ AssignString(<<1>>, StrLong, TRUE)
  \/ ArrayPopBack(<<>>)
  \/ \E key \in KeyStrings : SubscriptKey(<<>>, key, FALSE, FreshAddr(opa))
  \/ ObjectErase(<<>>, 0)
  \/ ToBArrayFresh
  \/ \E b \in BOOLEAN : BArrayPushBack(<<>>, b, FreshAddr(opa))
  \/ BArrayPopBack(<<>>)
  \/ ToIArrayFresh
  \/ \E i64 \in EditInts : IArrayPushBack(<<>>, i64, FreshAddr(opa))
  \/ IArrayPopBack(<<>>)
  \/ ConvertIArrayToDArray(<<>>, 0, FreshAddr(opa))
  \/ \E index \in AtIndexes, const \in BOOLEAN : ValueAt(<<>>, index, const)

SpecAt == InitKeys /\ [][NextAt]_vars

\* what a reference to an element of a container of that type refers to
referred(K, m, ref, fuel) ==
  IF ref[1] # "opa" THEN <<"wild">>
  ELSE IF K.type = ARRAY THEN valueOf(m, raw(ref), fuel - 1)
  ELSE IF K.type = OBJECT
  THEN <<cellsAt(m, raw(ref), SizeofCharPtr), valueOf(m, at(raw(ref), ValueOffset), fuel - 1)>>
  ELSE cellsAt(m, raw(ref), K.elem)

\* the step is a call of a checked accessor on the root
Accesses ==
  /\ dlast'.op \in {AtOp[t] : t \in DOMAIN AtOp} \cup {CAtOp[t] : t \in DOMAIN CAtOp}
  /\ dlast' # dlast

\* C31: a checked accessor called with an index at or past the size of the
\* container throws out_of_range, called with an index below the size it
\* returns a reference to the element at that index; either way the
\* document, its allocator and its string pool are as they were.
C31_CheckedAccess ==
  [][Accesses =>
       /\ dlast'.op \in {AtOp[jtype(mem, Root)], CAtOp[jtype(mem, Root)]}
       /\ mem' = mem /\ opa' = opa /\ pool' = pool /\ ub' = ub
       /\ IF dlast'.arg >= jsize(mem, Root)
          THEN dlast'.ret = OutOfRange
          ELSE /\ dlast'.ret # OutOfRange
               /\ referred(ContainerK[jtype(mem, Root)], mem, dlast'.ret, MaxDepth)
                    = valueOf(mem, Root, MaxDepth)[2][dlast'.arg + 1]]_vars

\* an IArray of capacity three holds one element: the accessor called with
\* index one, inside the buffer and past the size, threw
C31_Witness ==
  /\ dlast.op = "iarrayValueAt"
  /\ jtype(mem, Root) = IARRAY
  /\ jsize(mem, Root) = 1
  /\ jcapa(mem, Root) = 3
  /\ dlast.arg = 1
  /\ dlast.ret = OutOfRange

(***************************************************************************)
(* StackAllocator<Capacity, Alignment>: a fixed buffer with dead cells     *)
(***************************************************************************)
\* the instance of the test: StackAllocator<64, 8>
Capacity == 64

StackAlignment == 8

\* sizeof(DeadCell): two int32_t
StackDeadCellSize == 8

\* no dead cell, no previous cell
NoCell == 0 - 1

stackAlignSize(size) ==
  LET floor == (size \div StackAlignment) * StackAlignment
  IN  IF size = floor THEN floor ELSE floor + StackAlignment

\* a new StackAllocator; mBuffer holds the DeadCell headers written in the
\* buffer, by position, that no region handed out since has covered
StackAllocator ==
  [mFirstAvail |-> 0, mFirstDead |-> NoCell, mTotalDead |-> 0, mBuffer |-> <<>>]

\* the headers of a buffer once [pos, pos + size) belongs to the caller
handedOut(mBuffer, pos, size) ==
  [p \in {q \in DOMAIN mBuffer : q < pos \/ q >= pos + size} |-> mBuffer[p]]

\* throw std::bad_alloc()
stackThrow(A) == [A |-> A, ptr |-> NoCell, ok |-> FALSE, ub |-> FALSE]

stackReturn(A, pos, size) ==
  [A |-> [A EXCEPT !.mBuffer = handedOut(A.mBuffer, pos, size)], ptr |-> pos, ok |-> TRUE,
   ub |-> FALSE]

\* the while loop of allocate over the dead cells, from curDead
RECURSIVE stackFromDead(_, _, _, _)
stackFromDead(A, size, curDead, prevDead) ==
  IF curDead < 0 THEN stackThrow(A)
  ELSE IF curDead \notin DOMAIN A.mBuffer THEN [stackThrow(A) EXCEPT !.ub = TRUE]
  ELSE
    LET deadCell == A.mBuffer[curDead]
    IN  IF deadCell.size = size
        THEN LET B == IF prevDead < 0
                      THEN [A EXCEPT !.mFirstDead = NoCell]
                      ELSE [A EXCEPT !.mBuffer[prevDead].next = deadCell.next]
             IN  stackReturn([B EXCEPT !.mTotalDead = @ - size], curDead, size)
        ELSE IF deadCell.size >= size + StackDeadCellSize
        THEN LET newDeadCell == [size |-> deadCell.size - size, next |-> deadCell.next]
                 W == [A EXCEPT !.mBuffer = ((curDead + size) :> newDeadCell) @@ @]
                 B == IF prevDead < 0
                      THEN [W EXCEPT !.mFirstDead = curDead + size]
                      ELSE [W EXCEPT !.mBuffer[prevDead].next = curDead + size]
             IN  stackReturn([B EXCEPT !.mTotalDead = @ - size], curDead, size)
        ELSE stackFromDead(A, size, deadCell.next, curDead)

stackAllocate(A, size_) ==
  LET size == stackAlignSize(size_)
  IN  IF A.mFirstAvail + size <= Capacity
      THEN stackReturn([A EXCEPT !.mFirstAvail = @ + size], A.mFirstAvail, size)
      ELSE IF A.mTotalDead >= size
      THEN stackFromDead(A, size, A.mFirstDead, NoCell)
      ELSE stackThrow(A)

stackDeallocate(A, pos, size_) ==
  LET size == stackAlignSize(size_)
  IN  IF pos + size = A.mFirstAvail
      THEN IF pos = A.mTotalDead
           THEN [A EXCEPT !.mFirstAvail = 0, !.mFirstDead = NoCell, !.mTotalDead = 0]
           ELSE [A EXCEPT !.mFirstAvail = pos]
      ELSE [A EXCEPT !.mBuffer = (pos :> [size |-> size, next |-> A.mFirstDead]) @@ @,
                     !.mFirstDead = pos,
                     !.mTotalDead = @ + size]

used(A) == A.mFirstAvail - A.mTotalDead

\* request sizes: those of the test, aligned or not, and larger ones
StackSizes == {10, 16, 32}

InitStack ==
  /\ opa = StackAllocator
  /\ chunkSize = Capacity
  /\ live = {}
  /\ call = NoAllocCall
  /\ pool = StringPool(ChunkSize32, 0)
  /\ last = NoCall
  /\ firstRef = [s \in Strings |-> NullPtr]
  /\ ub = FALSE
  /\ IdleDoc

StackAllocate(size) ==
  LET r == stackAllocate(opa, size)
  IN  /\ opa' = r.A
      /\ live' = IF r.ok THEN live \cup {[ptr |-> r.ptr, size |-> size]} ELSE live
      /\ call' = [op |-> "allocate", ptr |-> r.ptr, size |-> size, ok |-> r.ok]
      /\ ub' = (ub \/ r.ub)
      /\ UNCHANGED <<chunkSize, pool, last, firstRef, docVars>>

StackDeallocate(b) ==
  /\ opa' = stackDeallocate(opa, b.ptr, b.size)
  /\ live' = live \ {b}
  /\ call' = [op |-> "deallocate", ptr |-> b.ptr, size |-> b.size, ok |-> TRUE]
  /\ UNCHANGED <<chunkSize, poolVars, docVars>>

NextStack ==
  \/ \E size \in StackSizes : StackAllocate(size)
  \/ \E b \in live : StackDeallocate(b)

SpecStack == InitStack /\ [][NextStack]_vars

\* the dead cells of the buffer: the headers below the free tail
deadCells(A) == {p \in DOMAIN A.mBuffer : p < A.mFirstAvail}

\* whether the free tail or a dead cell has room for the aligned request
canHold(A, size) ==
  \/ A.mFirstAvail + stackAlignSize(size) <= Capacity
  \/ \E p \in deadCells(A) : A.mBuffer[p].size >= stackAlignSize(size)

StackAllocates == \E size \in StackSizes : StackAllocate(size)

\* C32: allocate throws std::bad_alloc exactly when neither the free tail nor
\* any dead cell can hold the request, and then leaves firstAvail, the dead
\* cells and totalDead as they were.
C32_ThrowsIffNoRoom ==
  [][StackAllocates =>
       /\ ~call'.ok <=> ~canHold(opa, call'.size)
       /\ ~call'.ok => opa' = opa]_vars

\* the positions of the dead cells reachable from cur along next
RECURSIVE reachableFrom(_, _, _)
reachableFrom(A, cur, fuel) ==
  IF cur < 0 \/ cur \notin DOMAIN A.mBuffer \/ fuel = 0 THEN {}
  ELSE {cur} \cup reachableFrom(A, A.mBuffer[cur].next, fuel - 1)

reachableCells(A) == reachableFrom(A, A.mFirstDead, Capacity \div StackDeadCellSize)

RECURSIVE cellBytes(_, _)
cellBytes(A, cells) ==
  IF cells = {} THEN 0
  ELSE LET p == CHOOSE q \in cells : TRUE
       IN  A.mBuffer[p].size + cellBytes(A, cells \ {p})

RECURSIVE stackLiveBytes(_)
stackLiveBytes(regions) ==
  IF regions = {} THEN 0
  ELSE LET b == CHOOSE r \in regions : TRUE
       IN  stackAlignSize(b.size) + stackLiveBytes(regions \ {b})

\* C39: the sizes of the dead cells reachable from mFirstDead sum to
\* mTotalDead, used() is the total size of the live regions, and every dead
\* cell of the buffer is reachable from mFirstDead, also after the first cell
\* of the list was reused by exact fit.
C39_DeadCellsAccounted ==
  /\ cellBytes(opa, reachableCells(opa)) = opa.mTotalDead
  /\ used(opa) = stackLiveBytes(live)
  /\ reachableCells(opa) = deadCells(opa)

(***************************************************************************)
(* The order in which allocate looks for room                              *)
(***************************************************************************)
\* the positions of the dead cells chained from next
RECURSIVE freelist(_, _, _, _)
freelist(CS, chunk, next, fuel) ==
  IF next >= CS \/ fuel = 0 \/ next \notin DOMAIN chunk.cells THEN {}
  ELSE {next} \cup freelist(CS, chunk, chunk.cells[next].next, fuel - 1)

freeCells(CS, chunk) == freelist(CS, chunk, chunk.firstDead, CS)

tailHolds(CS, chunk, size) == chunk.firstAvail + size <= CS

freelistHolds(CS, chunk, size) ==
  \E p \in freeCells(CS, chunk) : chunk.cells[p].size >= size

\* ptr is what was the tail of chunk i of A, and B is A with that tail taken
servedFromTail(A, B, i, ptr, size) ==
  /\ ptr = <<A.mChunks[i + 1].data, A.mChunks[i + 1].firstAvail>>
  /\ B.mChunksCount = A.mChunksCount
  /\ B.mChunks[i + 1].firstAvail = A.mChunks[i + 1].firstAvail + size
  /\ B.mChunks[i + 1].totalDead = A.mChunks[i + 1].totalDead

\* ptr lies in a dead cell of chunk i of A, and B is A with size bytes less dead
servedFromFreelist(CS, A, B, i, ptr, size) ==
  /\ ptr[1] = A.mChunks[i + 1].data
  /\ \E p \in freeCells(CS, A.mChunks[i + 1]) :
       p <= ptr[2] /\ ptr[2] + size <= p + A.mChunks[i + 1].cells[p].size
  /\ B.mChunksCount = A.mChunksCount
  /\ B.mChunks[i + 1].firstAvail = A.mChunks[i + 1].firstAvail
  /\ B.mChunks[i + 1].totalDead = A.mChunks[i + 1].totalDead - size

\* ptr is the start of a chunk B has and A had not
servedFromNewChunk(A, B, ptr, size) ==
  /\ \A i \in 1..A.mChunksCount : A.mChunks[i].data # ptr[1]
  /\ B.mChunksCount = A.mChunksCount + 1
  /\ ptr[2] = 0
  /\ B.mChunks[B.mLastChunk + 1].data = ptr[1]
  /\ B.mChunks[B.mLastChunk + 1].firstAvail = size

\* the search order, for a chunkable allocate of the aligned size that took
\* the allocator from A to B and returned ptr
servedInOrder(CS, A, B, ptr, size) ==
  LET others == (0..(A.mChunksCount - 1)) \ {A.mLastChunk}
      lastChunk == A.mChunks[A.mLastChunk + 1]
  IN  IF A.mChunksCount = 0 THEN servedFromNewChunk(A, B, ptr, size)
      ELSE IF tailHolds(CS, lastChunk, size)
      THEN servedFromTail(A, B, A.mLastChunk, ptr, size) /\ B.mLastChunk = A.mLastChunk
      ELSE IF freelistHolds(CS, lastChunk, size)
      THEN servedFromFreelist(CS, A, B, A.mLastChunk, ptr, size) /\ B.mLastChunk = A.mLastChunk
      ELSE IF \E i \in others : tailHolds(CS, A.mChunks[i + 1], size)
      THEN \E i \in others : servedFromTail(A, B, i, ptr, size) /\ B.mLastChunk = i
      ELSE IF \E i \in others : freelistHolds(CS, A.mChunks[i + 1], size)
      THEN \E i \in others :
             servedFromFreelist(CS, A, B, i, ptr, size) /\ B.mLastChunk = A.mLastChunk
      ELSE servedFromNewChunk(A, B, ptr, size)

Allocates == \E size \in AllocSizes, data \in Addrs \cup {NoAddr} : Allocate(size, data)

\* C33: a chunkable allocate is served by the first that has room for the
\* aligned size among the last-used chunk's tail, its freelist, another
\* chunk's tail and another chunk's freelist, by a new chunk only if none
\* has, and mLastChunk changes only when a tail or a new chunk was used.
C33_ServedInOrder ==
  [][Allocates /\ chunkable(chunkSize, alignSize(call'.size)) =>
       servedInOrder(chunkSize, opa, opa', call'.ptr, alignSize(call'.size))]_vars

\* the last allocate took a dead cell of a chunk that is not the last-used one
C33_Witness ==
  /\ call.op = "allocate"
  /\ chunkable(chunkSize, alignSize(call.size))
  /\ opa.mChunksCount >= 2
  /\ opa.mChunks[opa.mLastChunk + 1].data # call.ptr[1]

(***************************************************************************)
(* Which dead cell serves a request                                        *)
(***************************************************************************)
\* the positions of the dead cells chained from next, in the order of the chain
RECURSIVE freeChain(_, _, _, _)
freeChain(CS, chunk, next, fuel) ==
  IF next >= CS \/ fuel = 0 \/ next \notin DOMAIN chunk.cells THEN <<>>
  ELSE <<next>> \o freeChain(CS, chunk, chunk.cells[next].next, fuel - 1)

freeSeq(CS, chunk) == freeChain(CS, chunk, chunk.firstDead, CS)

without(seq, k) == SubSeq(seq, 1, k - 1) \o SubSeq(seq, k + 1, Len(seq))

\* cell k of the chain is unlinked and its address returned
unlinked(CS, old, new, k, pos, size) ==
  /\ pos = freeSeq(CS, old)[k]
  /\ freeSeq(CS, new) = without(freeSeq(CS, old), k)
  /\ \A j \in (DOMAIN freeSeq(CS, old)) \ {k} :
       new.cells[freeSeq(CS, old)[j]].size = old.cells[freeSeq(CS, old)[j]].size

\* cell k of the chain stays in place, size bytes shorter, and its last size
\* bytes are returned
splitTail(CS, old, new, k, pos, size) ==
  LET p == freeSeq(CS, old)[k]
  IN  /\ pos = p + old.cells[p].size - size
      /\ freeSeq(CS, new) = freeSeq(CS, old)
      /\ \A j \in DOMAIN freeSeq(CS, old) :
           new.cells[freeSeq(CS, old)[j]].size =
             old.cells[freeSeq(CS, old)[j]].size - (IF j = k THEN size ELSE 0)

\* a chunkable allocate step
AllocatesInChunk == Allocates /\ chunkable(chunkSize, alignSize(call'.size))

\* the step took its region from the freelist of chunk i
FromFreelist(i) ==
  /\ i < opa.mChunksCount
  /\ opa'.mChunksCount = opa.mChunksCount
  /\ call'.ptr[1] = opa.mChunks[i + 1].data
  /\ call'.ptr[2] < opa.mChunks[i + 1].firstAvail

\* the totals of chunk i and of the pool decrease by the aligned size
lessDead(A, B, i, size) ==
  /\ B.mChunks[i + 1].totalDead = A.mChunks[i + 1].totalDead - size
  /\ B.mTotalDead = A.mTotalDead - size
  /\ B.mChunks[i + 1].firstAvail = A.mChunks[i + 1].firstAvail

\* a policy by priority: an exact cell if the freelist has one,
\* else a cell of twice the size if it has one, else the smallest that fits
byPriority(CS, old, new, pos, size) ==
  LET seq == freeSeq(CS, old)
      exact == {k \in DOMAIN seq : old.cells[seq[k]].size = size}
      double == {k \in DOMAIN seq : old.cells[seq[k]].size >= 2 * size}
      fitting == {k \in DOMAIN seq : old.cells[seq[k]].size >= size}
  IN  IF exact # {} THEN \E k \in exact : unlinked(CS, old, new, k, pos, size)
      ELSE IF double # {} THEN \E k \in double : splitTail(CS, old, new, k, pos, size)
      ELSE \E k \in fitting :
             /\ \A j \in fitting : old.cells[seq[k]].size <= old.cells[seq[j]].size
             /\ splitTail(CS, old, new, k, pos, size)

\* the policy of the walk: the first cell of the chain that is exact or of
\* twice the size, else the first of the smallest cells larger than the size
byWalk(CS, old, new, pos, size) ==
  LET seq == freeSeq(CS, old)
      stops == {k \in DOMAIN seq :
                  old.cells[seq[k]].size = size \/ old.cells[seq[k]].size >= 2 * size}
      larger == {k \in DOMAIN seq : old.cells[seq[k]].size > size}
      smallest == {k \in larger : \A j \in larger :
                     old.cells[seq[k]].size <= old.cells[seq[j]].size}
  IN  IF stops # {}
      THEN IF old.cells[seq[Least(stops)]].size = size
           THEN unlinked(CS, old, new, Least(stops), pos, size)
           ELSE splitTail(CS, old, new, Least(stops), pos, size)
      ELSE smallest # {} /\ splitTail(CS, old, new, Least(smallest), pos, size)

\* C34 as stated: a request served from a freelist takes a cell of exactly
\* the aligned size if there is one, unlinking it, else splits a cell of at
\* least twice the size, else uses the smallest cell that fits; the totals
\* decrease by the size.
C34_ExactCellPreferred ==
  [][AllocatesInChunk => \A i \in 0..(MaxAddr + 1) :
       FromFreelist(i) =>
         /\ lessDead(opa, opa', i, alignSize(call'.size))
         /\ byPriority(chunkSize, opa.mChunks[i + 1], opa'.mChunks[i + 1],
                       call'.ptr[2], alignSize(call'.size))]_vars

\* C34: the freelist is walked from firstDead and the first cell that is of
\* exactly the aligned size (unlinked, its address returned) or of at least
\* twice the size (shortened, its tail returned) serves the request, even if
\* an exact cell comes later; if there is none, the first of the smallest
\* cells larger than the request is shortened and its tail returned; the
\* chunk's and the pool's totalDead decrease by the size.
C34_FirstCellOfWalk ==
  [][AllocatesInChunk => \A i \in 0..(MaxAddr + 1) :
       FromFreelist(i) =>
         /\ lessDead(opa, opa', i, alignSize(call'.size))
         /\ byWalk(chunkSize, opa.mChunks[i + 1], opa'.mChunks[i + 1],
                   call'.ptr[2], alignSize(call'.size))]_vars

\* the last allocate split the dead cell at the head of a freelist that also
\* had a cell of exactly the size asked for
C34_Witness ==
  /\ call.op = "allocate"
  /\ alignSize(call.size) = Alignment
  /\ \E i \in 1..opa.mChunksCount :
       LET chunk == opa.mChunks[i]
       IN  /\ chunk.data = call.ptr[1]
           /\ chunk.totalDead = 2 * Alignment
           /\ Len(freeSeq(chunkSize, chunk)) = 2
           /\ freeSeq(chunkSize, chunk)[1] + Alignment = call.ptr[2]
           /\ call.ptr[2] < chunk.firstAvail

(***************************************************************************)
(* What deallocate does to the chunk of the region                         *)
(***************************************************************************)
\* index, from 1, of the chunk of A whose block is at data
chunkIndex(A, data) == CHOOSE i \in 1..A.mChunksCount : A.mChunks[i].data = data

\* b is the only region held in its chunk
soleLive(b) == \A c \in live : c.ptr[1] = b.ptr[1] => c = b

\* b ends where the free tail of its chunk begins
adjoinsTail(A, b) ==
  b.ptr[2] + alignSize(b.size) = A.mChunks[chunkIndex(A, b.ptr[1])].firstAvail

chunkReset(CS, A, B, i) ==
  /\ B.mChunks[i].firstAvail = 0
  /\ B.mChunks[i].firstDead = CS
  /\ freeSeq(CS, B.mChunks[i]) = <<>>
  /\ B.mChunks[i].totalDead = 0
  /\ B.mTotalDead = A.mTotalDead - A.mChunks[i].totalDead

tailLowered(CS, A, B, i, size) ==
  /\ B.mChunks[i].firstAvail = A.mChunks[i].firstAvail - size
  /\ B.mChunks[i].firstDead = A.mChunks[i].firstDead
  /\ freeSeq(CS, B.mChunks[i]) = freeSeq(CS, A.mChunks[i])
  /\ B.mChunks[i].totalDead = A.mChunks[i].totalDead
  /\ B.mTotalDead = A.mTotalDead

deadCellWritten(CS, A, B, i, pos, size) ==
  /\ pos \in DOMAIN B.mChunks[i].cells
  /\ B.mChunks[i].cells[pos] = [size |-> size, next |-> A.mChunks[i].firstDead]
  /\ B.mChunks[i].firstDead = pos
  /\ freeSeq(CS, B.mChunks[i]) = <<pos>> \o freeSeq(CS, A.mChunks[i])
  /\ B.mChunks[i].firstAvail = A.mChunks[i].firstAvail
  /\ B.mChunks[i].totalDead = A.mChunks[i].totalDead + size
  /\ B.mTotalDead = A.mTotalDead + size

\* the allocator holds the same blocks, and only chunk i changed
chunksKept(A, B, i) ==
  /\ B.mChunksCount = A.mChunksCount
  /\ \A j \in 1..A.mChunksCount :
       /\ B.mChunks[j].data = A.mChunks[j].data
       /\ j # i => B.mChunks[j] = A.mChunks[j]
  /\ B.mFallbacks = A.mFallbacks

\* the region b of a chunk is given back
DeallocatesInChunk(b) == Deallocate(b) /\ chunkable(chunkSize, alignSize(b.size))

\* C35 as stated: the chunk is reset if the region adjoins the live tail and
\* is the sole live content of the chunk, else firstAvail is lowered if it
\* adjoins the tail, else a dead cell is written.
C35_ResetNeedsTail ==
  [][\A b \in live : DeallocatesInChunk(b) =>
       LET i == chunkIndex(opa, b.ptr[1])
           size == alignSize(b.size)
       IN  /\ chunksKept(opa, opa', i)
           /\ IF adjoinsTail(opa, b) /\ soleLive(b) THEN chunkReset(chunkSize, opa, opa', i)
              ELSE IF adjoinsTail(opa, b) THEN tailLowered(chunkSize, opa, opa', i, size)
              ELSE deadCellWritten(chunkSize, opa, opa', i, b.ptr[2], size)]_vars

\* C35: deallocate of a chunk-resident region does exactly one of: if the
\* region is the sole live content of the chunk, whether it adjoins the tail
\* or dead cells lie between it and the tail, the chunk is reset and the
\* pool's totalDead loses the chunk's; else if it adjoins the tail, firstAvail
\* is lowered by the aligned size; else a dead cell {aligned size, old
\* firstDead} is written at the region and counted in both totals.  No block
\* goes back to the base allocator.
C35_ResetWhenSole ==
  [][\A b \in live : DeallocatesInChunk(b) =>
       LET i == chunkIndex(opa, b.ptr[1])
           size == alignSize(b.size)
       IN  /\ chunksKept(opa, opa', i)
           /\ IF soleLive(b) THEN chunkReset(chunkSize, opa, opa', i)
              ELSE IF adjoinsTail(opa, b) THEN tailLowered(chunkSize, opa, opa', i, size)
              ELSE deadCellWritten(chunkSize, opa, opa', i, b.ptr[2], size)]_vars

\* the last call gave back a region that did not start its chunk, and the
\* chunk, which held dead cells below it, is reset while others hold regions
C35_Witness ==
  /\ call.op = "deallocate"
  /\ chunkable(chunkSize, alignSize(call.size))
  /\ call.ptr[2] > 0
  /\ live # {}
  /\ \E i \in 1..opa.mChunksCount :
       /\ opa.mChunks[i].data = call.ptr[1]
       /\ opa.mChunks[i].firstAvail = 0
       /\ opa.mChunks[i].firstDead = chunkSize

(***************************************************************************)
(* The load of the bucket array                                            *)
(***************************************************************************)
\* (itemCount + 1) / bucketCount > DefaultMaxLoadFactor, which is 1.5
overLoad(P) == 2 * (P.mItemCount + 1) > 3 * P.mBucketCount

\* ceil(bucketCount x GrowthFactor), or the initial count of an empty array
grownBucketCount(P) ==
  IF P.mBucketCount > 0 THEN 2 * P.mBucketCount ELSE StartingBucketCount

\* load_factor() <= max_load_factor()
loadWithinMax(P) == 2 * P.mItemCount <= 3 * P.mBucketCount

Provides == \E in \in ProvideInputs, key \in BOOLEAN : Provide(in[1], in[2], key)

\* C36: a provide that would take (itemCount + 1) / bucketCount over maxLoad
\* first rehashes to ceil(bucketCount x growthFactor) buckets, the initial
\* count if there were none, and no other provide rehashes; after the provide
\* load_factor() is at most max_load_factor() and get still returns every
\* string it returned before.
C36_GrowsBeforeOverload ==
  [][Provides /\ ~ub' =>
       /\ pool'.mBucketCount = IF overLoad(pool) THEN grownBucketCount(pool)
                               ELSE pool.mBucketCount
       /\ loadWithinMax(pool')
       /\ \A s \in Strings :
            ~IsNull(get_(pool, s)) => get_(pool', s) = get_(pool, s)
       /\ ~IsNull(get_(pool', last'.str))]_vars

\* the last provide found the bucket array full at one bucket and one string,
\* and the pool now holds two strings in two buckets
C36_Witness ==
  /\ last.op = "provide"
  /\ ~last.found
  /\ last.size = 1
  /\ pool.mItemCount = 2
  /\ pool.mBucketCount = 2
  /\ \A s \in Strings : ~IsNull(firstRef[s]) => get_(pool, s) = firstRef[s]

\* C37: whenever the allocator has at least one chunk, mLastChunk is smaller
\* than mChunksCount, so that allocate reads and updates only descriptors of
\* the live part of the chunk vector.
C37_LastChunkInVector ==
  opa.mChunksCount > 0 => opa.mLastChunk < opa.mChunksCount

\* the bytes [p, p + m) and [q, q + n) have none in common
apart(p, m, q, n) == p + m <= q \/ q + n <= p

\* the region b lies in the used part of a chunk of the vector, apart from
\* the other regions held and from the dead cells of that chunk
inOwnedChunk(CS, A, held, b) ==
  \E i \in 1..A.mChunksCount :
    /\ A.mChunks[i].data = b.ptr[1]
    /\ b.ptr[2] + alignSize(b.size) <= A.mChunks[i].firstAvail
    /\ A.mChunks[i].firstAvail <= CS
    /\ \A c \in held \ {b} :
         c.ptr[1] = b.ptr[1] => apart(b.ptr[2], alignSize(b.size), c.ptr[2], alignSize(c.size))
    /\ \A p \in freeCells(CS, A.mChunks[i]) :
         apart(b.ptr[2], alignSize(b.size), p, A.mChunks[i].cells[p].size)

\* the region b is the data of a fallback record of its size
inOwnFallback(A, held, b) ==
  /\ \E i \in 1..Len(A.mFallbacks) :
       A.mFallbacks[i].data = b.ptr[1] /\ A.mFallbacks[i].size = b.size
  /\ b.ptr[2] = 0
  /\ \A c \in held \ {b} : c.ptr[1] # b.ptr[1]

\* C38: every region returned by allocate and not given back lies wholly in
\* one chunk the allocator still owns, or in its own fallback record, and
\* overlaps no other live region and no dead cell.
C38_LiveRegionsOwned ==
  \A b \in live :
    IF chunkable(chunkSize, alignSize(b.size))
    THEN inOwnedChunk(chunkSize, opa, live, b)
    ELSE inOwnFallback(opa, live, b)

(***************************************************************************)
(* What an in-place shrink gives back                                      *)
(***************************************************************************)
\* the buffer of the container in cell v lies in the used part of a chunk,
\* and no dead cell of that chunk covers a byte of the aligned region of its
\* capacity
bufferKept(CS, A, m, v) ==
  LET K == ContainerK[jtype(m, v)]
      p == jptr(m, v)
      region == alignSize(jcapa(m, v) * K.elem)
  IN  /\ p[1] = "opa"
      /\ \E i \in 1..A.mChunksCount :
           /\ A.mChunks[i].data = p[2]
           /\ p[3] + region <= A.mChunks[i].firstAvail
           /\ \A c \in freeCells(CS, A.mChunks[i]) :
                apart(p[3], region, c, A.mChunks[i].cells[c].size)
           /\ chunkDead(CS, A.mChunks[i], A.mChunks[i].firstDead, CS) = A.mChunks[i].totalDead

\* C40: an in-place shrink of a chunk-resident buffer gives back only bytes
\* of that buffer beyond its kept elements: afterwards, and after the later
\* operations on the container, the buffer lies in the used part of its
\* chunk, no dead cell covers a byte of it, the dead cells of the chunk sum
\* to its totalDead, and the bytes the allocator counts as used are those of
\* the buffers the document owns.
C40_ShrinkKeepsBuffer ==
  ~ub =>
    /\ (/\ jtype(mem, Root) \in DOMAIN ContainerK
        /\ jcapa(mem, Root) > 0
        /\ chunkable(chunkSize, alignSize(jcapa(mem, Root) * ContainerK[jtype(mem, Root)].elem)))
         => bufferKept(chunkSize, opa, mem, Root)
    /\ usedBytes(opa) = ownedBytes(chunkSize, mem, Root, MaxDepth)

====
